---- MODULE Spec2Model ----
(***************************************************************************)
(* A model of the flight physics and spatial queries of fpv-flight-quest   *)
(* (src/src/utils/physics.ts) and of the frame loop that drives them       *)
(* (src/src/DroneScene.tsx).                                               *)
(*                                                                         *)
(* Numbers.  A JavaScript number is modelled as a fixed-point integer in   *)
(* thousandths (Scale = 1000: 2.5 is 2500, a deltaTime of 16 ms is 16), or *)
(* as the value NaN.  Every arithmetic operator below propagates NaN the   *)
(* way IEEE 754 does, and every comparison with NaN is false.  Products    *)
(* and quotients round to the nearest thousandth.                          *)
(***************************************************************************)
EXTENDS Integers, Sequences, FiniteSets

VARIABLES
  dronePhysics, \* dronePhysicsRef.current: the drone state the frame loop holds
  argBefore,  \* the object passed as `physics` to the last call, before it
  argAfter,   \* the same object after the call returned
  lastCall,   \* the controls, speedBoost and deltaTime of the last call
  plan,       \* the manoeuvre the pilot flies before the free steps
  freeSteps,  \* the number of freely chosen steps taken so far
  obstaclePositions,    \* the obstacles: position and radius
  coinPositions,        \* the coins: position, radius, collected
  query,                \* the arguments of the last spatial query
  collisionResult,      \* what the last checkCollision returned
  coinsBefore,          \* the coins as the last checkCoinCollection found them
  collectedCoinIndices, \* what the last checkCoinCollection returned
  queryCalls,           \* the number of spatial queries made so far
  state,                \* the game state of useGameState
  gameStarted,          \* gameStartedRef.current: the grace period is over
  pendingUpdates,       \* state updates queued by setState, not yet applied
  coinReports,          \* every coin index the frame loop has reported so far
  frames,               \* the number of animation frames run so far
  previousTime,         \* previousTimeRef.current, in ms
  raf,                  \* requestRef.current and the callbacks the browser holds
  gameFrames,           \* the physics steps made since the game was last started
  rendered,             \* the game state the installed effects and handlers have seen
  applied,              \* the last updater applied to the game state, and the state before it
  gameControls,         \* the controls held by Game
  keys,                 \* DroneController's keys: which keys are down
  steeringLock,         \* DroneController's steeringLock
  activeSteeringKey,    \* DroneController's activeSteeringKey; null is "none"
  keyEvent,             \* the last keyboard event handled, and the lock before it
  powerUpPositions,     \* the power-ups: position, radius, type, collected
  safeStartTimer,       \* the ms left on the grace period's timer, NoTimer for none
  playingFor            \* the ms the game has been 'playing' without a break, up to 3000

Scale == 10 ^ 3

\* The IEEE 754 not-a-number, as Math.pow returns it for a negative base
\* and a fractional exponent.  The value is outside the range of every
\* finite number of the model.
NaN == -2000000000

----------------------------------------------------------------------------
(* Arithmetic of JavaScript numbers *)

IsNaN(a) == a = NaN

IsFinite(a) == a # NaN

IntAbs(a) == IF a < 0 THEN -a ELSE a

IntSign(a) == IF a < 0 THEN -1 ELSE IF a > 0 THEN 1 ELSE 0

Add(a, b) == IF IsNaN(a) \/ IsNaN(b) THEN NaN ELSE a + b

Sub(a, b) == IF IsNaN(a) \/ IsNaN(b) THEN NaN ELSE a - b

Neg(a) == IF IsNaN(a) THEN NaN ELSE -a

\* |big| * |small| / Scale, rounded to nearest, without leaving 32 bits:
\* the larger factor is split into its whole and fractional parts.
MulSplit(small, big) ==
  small * (big \div Scale) + ((small * (big % Scale) + Scale \div 2) \div Scale)

Mul(a, b) ==
  IF IsNaN(a) \/ IsNaN(b) THEN NaN
  ELSE LET x == IntAbs(a)
           y == IntAbs(b)
       IN  IntSign(a) * IntSign(b)
             * (IF x <= y THEN MulSplit(x, y) ELSE MulSplit(y, x))

\* a / b.  No divisor of the program is ever zero where the division is
\* reached (mass is 1, the boundary widths are constants, speed is divided
\* by only above 80% of the cap); 0/0 is NaN.
Div(a, b) ==
  IF IsNaN(a) \/ IsNaN(b) \/ b = 0 THEN NaN
  ELSE IntSign(a) * IntSign(b)
         * ((IntAbs(a) * Scale + IntAbs(b) \div 2) \div IntAbs(b))

Lt(a, b) == ~IsNaN(a) /\ ~IsNaN(b) /\ a < b

Gt(a, b) == ~IsNaN(a) /\ ~IsNaN(b) /\ a > b

Le(a, b) == ~IsNaN(a) /\ ~IsNaN(b) /\ a <= b

MathAbs(a) == IF IsNaN(a) THEN NaN ELSE IntAbs(a)

\* Math.sign: -1, 0 or 1 as a number of the model.
MathSign(a) == IF IsNaN(a) THEN NaN ELSE IntSign(a) * Scale

MathMax(a, b) == IF IsNaN(a) \/ IsNaN(b) THEN NaN ELSE IF a >= b THEN a ELSE b

MathMin(a, b) == IF IsNaN(a) \/ IsNaN(b) THEN NaN ELSE IF a <= b THEN a ELSE b

\* ceil(r * r / Scale) for r >= 0.
CeilSq(r) == r * (r \div Scale) + ((r * (r % Scale) + Scale - 1) \div Scale)

\* The largest r in [lo, hi) with r * r <= a * Scale, by bisection.
RECURSIVE SqrtBisect(_, _, _)
SqrtBisect(a, lo, hi) ==
  IF hi - lo <= 1 THEN lo
  ELSE LET mid == (lo + hi) \div 2
       IN  IF CeilSq(mid) <= a THEN SqrtBisect(a, mid, hi)
           ELSE SqrtBisect(a, lo, mid)

SqrtCeiling == 2 ^ 20

MathSqrt(a) ==
  IF IsNaN(a) \/ a < 0 THEN NaN
  ELSE SqrtBisect(a, 0, IF a + Scale < SqrtCeiling THEN a + Scale + 1 ELSE SqrtCeiling)

Pi == 3142
HalfPi == 1571
TwoPi == 6283

\* The angle brought into [-Pi, Pi).
WrapAngle(a) == ((a + Pi) % TwoPi) - Pi

\* sin on [-Pi/2, Pi/2]: x - x^3/3! + x^5/5! - x^7/7!, in Horner form.
SinSeries(y) ==
  LET x2 == Mul(y, y)
      p3 == Scale - x2 \div 42
      p2 == Scale - Mul(x2 \div 20, p3)
      p1 == Scale - Mul(x2 \div 6, p2)
  IN  Mul(y, p1)

\* cos on [0, Pi/2]: 1 - x^2/2! + x^4/4! - x^6/6! + x^8/8!.
CosSeries(y) ==
  LET x2 == Mul(y, y)
      p4 == Scale - x2 \div 56
      p3 == Scale - Mul(x2 \div 30, p4)
      p2 == Scale - Mul(x2 \div 12, p3)
  IN  Scale - Mul(x2 \div 2, p2)

MathSin(a) ==
  IF IsNaN(a) THEN NaN
  ELSE LET w == WrapAngle(a)
           y == IF w > HalfPi THEN Pi - w
                ELSE IF w < -HalfPi THEN -Pi - w ELSE w
       IN  SinSeries(y)

MathCos(a) ==
  IF IsNaN(a) THEN NaN
  ELSE LET w == IntAbs(WrapAngle(a))
       IN  IF w > HalfPi THEN -CosSeries(Pi - w) ELSE CosSeries(w)

\* base^1.15 at the quarter points of [0, 1]; linear in between.
Pow115Knots == << 0, 203, 451, 718, 1000 >>

\* Math.pow(base, 1.15): NaN for a negative base (the exponent is not an
\* integer), 0 at 0, 1 at 1.
MathPow115(base) ==
  IF IsNaN(base) \/ base < 0 THEN NaN
  ELSE IF base >= Scale THEN Scale + Mul(base - Scale, 1150)
  ELSE LET k  == base \div 250
           lo == Pow115Knots[k + 1]
           hi == Pow115Knots[k + 2]
       IN  lo + ((hi - lo) * (base - k * 250) + 125) \div 250

----------------------------------------------------------------------------
(* createDronePhysics and updateDronePhysics, src/src/utils/physics.ts *)

Vec(x, y, z) == [x |-> x, y |-> y, z |-> z]

ZeroVec == Vec(0, 0, 0)

\* The scalar parameters createDronePhysics fixes; no step changes them.
mass == 1 * Scale
drag == 200
maxSpeed == 60 * Scale
maxAcceleration == 15 * Scale
gravity == 9800
inertia == 850
stabilization == 30

createDronePhysics ==
  [ position     |-> Vec(0, 30 * Scale, 0),
    rotation     |-> ZeroVec,
    velocity     |-> ZeroVec,
    acceleration |-> ZeroVec,
    steeringLock |-> 0,
    tilt         |-> 0 ]

minHeight == 2500
bounceCoefficient == 400
worldBoundary == 500 * Scale
boundaryForce == 50
maxAltitude == 150 * Scale

\* const actualMaxSpeed = powerUps.speedBoost ? maxSpeed * 2.2 : maxSpeed
ActualMaxSpeed(speedBoost) == IF speedBoost THEN Mul(maxSpeed, 2200) ELSE maxSpeed

\* The steering lock the step works with: the controls' when they carry one.
NewSteeringLock(physics, controls) ==
  IF controls.hasSteeringLock THEN controls.steeringLock ELSE physics.steeringLock

\* The object passed as `physics`, as the call leaves it: with the lock on,
\* `rotation.z = newSteeringLock * 0.18` writes into the caller's object
\* (`rotation` is the destructured reference, not a copy).
PhysicsAfterCall(physics, controls) ==
  LET lock == NewSteeringLock(physics, controls)
  IN  IF lock # 0
      THEN [physics EXCEPT !.rotation.z = lock * 180]
      ELSE physics

EffectiveYaw(lock, yaw) ==
  IF lock # 0
  THEN lock * (IF Gt(MathAbs(yaw), 2 * Scale) THEN 2400 ELSE 1400)
  ELSE yaw

\* A yaw multiplier that does not look at the effective yaw.
YawMultiplierFlat(effectiveYaw) == 1400

YawMultiplier(effectiveYaw) ==
  IF Gt(MathAbs(effectiveYaw), 2 * Scale) THEN 2400 ELSE 1400

\* const yawChange = effectiveYaw * rotationSpeed * yawMultiplier
YawChange(effectiveYaw, rotationSpeed) ==
  Mul(Mul(effectiveYaw, rotationSpeed), YawMultiplier(effectiveYaw))

\* An auto-stabilization with one factor for the three axes that leaves
\* every axis alone while the steering is locked.
RotationUpdateUniform(rotation, controls, lock, rotationSpeed) ==
  [ x |-> IF lock = 0 /\ Lt(MathAbs(controls.pitch), 100)
          THEN Mul(rotation.x, Scale - stabilization)
          ELSE Add(rotation.x, Mul(Mul(controls.pitch, rotationSpeed), 1900)),
    y |-> IF lock = 0 /\ Lt(MathAbs(controls.yaw), 100)
          THEN Mul(rotation.y, Scale - stabilization)
          ELSE Add(rotation.y,
                   YawChange(EffectiveYaw(lock, controls.yaw), rotationSpeed)),
    z |-> IF lock = 0 /\ Lt(MathAbs(controls.roll), 100)
          THEN Mul(rotation.z, Scale - stabilization)
          ELSE Add(rotation.z, Mul(Mul(controls.roll, rotationSpeed), 1600)) ]

\* newRotation after the auto-stabilization block, from the rotation the
\* lock has banked and rotationSpeed = 3.8 * deltaTime.
RotationUpdate(rotation, controls, lock, rotationSpeed) ==
  [ x |-> IF Lt(MathAbs(controls.pitch), 100)
          THEN Mul(rotation.x, Scale - stabilization)
          ELSE Add(rotation.x, Mul(Mul(controls.pitch, rotationSpeed), 1900)),
    y |-> IF lock = 0 /\ Lt(MathAbs(controls.yaw), 100)
          THEN Mul(rotation.y, Scale - Mul(stabilization, 500))
          ELSE Add(rotation.y,
                   YawChange(EffectiveYaw(lock, controls.yaw), rotationSpeed)),
    z |-> IF IntAbs(lock) * Scale < 100 /\ Lt(MathAbs(controls.roll), 100)
          THEN Mul(rotation.z, Scale - stabilization)
          ELSE Add(rotation.z, Mul(Mul(controls.roll, rotationSpeed), 1600)) ]

NewRotation(rotation, controls, lock, deltaTime) ==
  RotationUpdate(rotation, controls, lock, Mul(3800, deltaTime))

\* const pitchEffect = -sin(x) * (1 + |sin(x)| * 0.3), from sin(x).
PitchEffect(sinPitch) ==
  Mul(Neg(sinPitch), Add(Scale, Mul(MathAbs(sinPitch), 300)))

ForwardForce(newRotation) ==
  Mul(Mul(PitchEffect(MathSin(newRotation.x)), maxAcceleration), 1800)

\* min(1.0, sqrt(vx^2 + vz^2) / 20)
SpeedFactor(velocity) ==
  MathMin(Scale,
          Div(MathSqrt(Add(Mul(velocity.x, velocity.x), Mul(velocity.z, velocity.z))),
              20 * Scale))

\* sin(rotation.z) * maxAcceleration * 1.1, plus the turn assist of a lock.
HorizontalForce(newRotation, velocity, lock, forwardForce) ==
  IF lock # 0
  THEN Add(Mul(Mul(MathSin(newRotation.z), maxAcceleration), 1100),
           Mul(Mul(Mul(lock * 2800, MathAbs(forwardForce)), 130),
               Add(Scale, SpeedFactor(velocity))))
  ELSE Mul(Mul(MathSin(newRotation.z), maxAcceleration), 1100)

\* forces / mass from forwardForce, before the inertia blend.
AccelerationOf(newRotation, velocity, controls, lock, forwardForce) ==
  Vec(Div(Add(Mul(MathSin(newRotation.y), forwardForce),
              HorizontalForce(newRotation, velocity, lock, forwardForce)),
          mass),
      Div(Sub(Mul(Mul(MathPow115(controls.throttle), maxAcceleration), 2 * Scale),
              gravity),
          mass),
      Div(Mul(MathCos(newRotation.y), forwardForce), mass))

NewAcceleration(newRotation, velocity, controls, lock) ==
  AccelerationOf(newRotation, velocity, controls, lock, ForwardForce(newRotation))

Blend(old, new) == Add(Mul(old, inertia), Mul(new, Scale - inertia))

BlendedAcceleration(acceleration, newAcceleration) ==
  Vec(Blend(acceleration.x, newAcceleration.x),
      Blend(acceleration.y, newAcceleration.y),
      Blend(acceleration.z, newAcceleration.z))

SpeedSquared(v) == Add(Add(Mul(v.x, v.x), Mul(v.y, v.y)), Mul(v.z, v.z))

Speed(v) == MathSqrt(SpeedSquared(v))

\* A drag factor that takes no speed away.
DragFactorNone(velocity, deltaTime) == Scale

\* The drag of a step that leaves out the quadratic term.
DragFactorLinearOnly(velocity, deltaTime) ==
  MathMax(0, Sub(Scale, Mul(drag, deltaTime)))

DragFactor(velocity, deltaTime) ==
  MathMax(0, Sub(Sub(Scale, Mul(drag, deltaTime)),
                 Mul(Mul(Mul(drag, 20), SpeedSquared(velocity)), deltaTime)))

ApplyDrag(velocity, blended, deltaTime, dragFactor) ==
  Vec(Mul(Add(velocity.x, Mul(blended.x, deltaTime)), dragFactor),
      Mul(Add(velocity.y, Mul(blended.y, deltaTime)), dragFactor),
      Mul(Add(velocity.z, Mul(blended.z, deltaTime)), dragFactor))

\* newVelocity before the speed limiter.
IntegrateVelocity(velocity, blended, deltaTime) ==
  ApplyDrag(velocity, blended, deltaTime, DragFactor(velocity, deltaTime))

ScaleVec(v, factor) == Vec(Mul(v.x, factor), Mul(v.y, factor), Mul(v.z, factor))

\* Progressive speed limiting: above 80% of the cap the velocity is scaled
\* by 0.95 + 0.05 * min(1, cap / speed).
LimitAtSpeed(v, actualMaxSpeed, speed) ==
  IF Gt(speed, Mul(actualMaxSpeed, 800))
  THEN ScaleVec(v, Add(950, Mul(50, MathMin(Scale, Div(actualMaxSpeed, speed)))))
  ELSE v

LimitSpeed(v, actualMaxSpeed) == LimitAtSpeed(v, actualMaxSpeed, Speed(v))

\* A ground collision that bounces whatever the impact speed and applies
\* no ground friction.
GroundCollisionAlwaysBounce(position, velocity) ==
  IF Lt(position.y, minHeight)
  THEN [ position |-> Vec(position.x, minHeight, position.z),
         velocity |-> Vec(velocity.x,
                          Mul(MathAbs(velocity.y), bounceCoefficient),
                          velocity.z) ]
  ELSE [ position |-> position, velocity |-> velocity ]

\* Ground collision: clamp to minHeight, bounce or stop, ground friction.
GroundCollision(position, velocity) ==
  IF Lt(position.y, minHeight)
  THEN [ position |-> Vec(position.x, minHeight, position.z),
         velocity |->
           Vec(Mul(velocity.x, 900),
               IF Lt(velocity.y, -2 * Scale)
               THEN Mul(MathAbs(velocity.y), bounceCoefficient)
               ELSE 0,
               Mul(velocity.z, 900)) ]
  ELSE [ position |-> position, velocity |-> velocity ]

\* The hard limit of one horizontal axis, after the push-back:
\* <<position, velocity>>.
BoundaryLimit(p, pushed) ==
  IF Gt(MathAbs(p), worldBoundary)
  THEN << Mul(MathSign(p), worldBoundary), Mul(pushed, -300) >>
  ELSE << p, pushed >>

\* One horizontal axis of the world boundary: <<position, velocity>>.
BoundaryAxis(p, v, deltaTime) ==
  IF Gt(MathAbs(p), Mul(worldBoundary, 950))
  THEN BoundaryLimit(
         p,
         Add(v, Mul(Mul(Mul(Mul(Div(Sub(MathAbs(p), Mul(worldBoundary, 950)),
                                    Mul(worldBoundary, 50)),
                                boundaryForce),
                            Neg(MathSign(p))),
                        100 * Scale),
                    deltaTime)))
  ELSE << p, v >>

JoinAxes(bx, y, vy, bz) ==
  [ position |-> Vec(bx[1], y, bz[1]), velocity |-> Vec(bx[2], vy, bz[2]) ]

WorldBoundary(pv, deltaTime) ==
  JoinAxes(BoundaryAxis(pv.position.x, pv.velocity.x, deltaTime),
           pv.position.y, pv.velocity.y,
           BoundaryAxis(pv.position.z, pv.velocity.z, deltaTime))

\* The hard limit at the absolute ceiling, after the downward force.
CeilingLimit(pv, slowed) ==
  IF Gt(pv.position.y, maxAltitude)
  THEN [ position |-> Vec(pv.position.x, maxAltitude, pv.position.z),
         velocity |-> Vec(pv.velocity.x, MathMin(0, slowed), pv.velocity.z) ]
  ELSE [ position |-> pv.position,
         velocity |-> Vec(pv.velocity.x, slowed, pv.velocity.z) ]

CeilingResistance(pv, deltaTime, ceilingApproach) ==
  IF Gt(ceilingApproach, 0)
  THEN CeilingLimit(pv, Sub(pv.velocity.y,
                            Mul(Mul(Mul(ceilingApproach, 9800), deltaTime), 2 * Scale)))
  ELSE pv

\* Altitude ceiling with progressive resistance and a hard limit.
AltitudeCeiling(pv, deltaTime) ==
  CeilingResistance(pv, deltaTime,
                    MathMax(0, Div(Sub(pv.position.y, Mul(maxAltitude, 850)),
                                   Mul(maxAltitude, 150))))

\* const tiltAmount = sqrt(rx^2 + rz^2) * Math.sign(newRotation.z || 0.01)
TiltAmount(newRotation) ==
  Mul(MathSqrt(Add(Mul(newRotation.x, newRotation.x),
                   Mul(newRotation.z, newRotation.z))),
      MathSign(IF IsNaN(newRotation.z) \/ newRotation.z = 0 THEN 10 ELSE newRotation.z))

\* newPosition = position + newVelocity * deltaTime
NewPosition(position, newVelocity, deltaTime) ==
  Vec(Add(position.x, Mul(newVelocity.x, deltaTime)),
      Add(position.y, Mul(newVelocity.y, deltaTime)),
      Add(position.z, Mul(newVelocity.z, deltaTime)))

\* The limits of the world, in the order of the code: ground, world
\* boundary, ceiling.
EnforceLimits(position, velocity, deltaTime) ==
  AltitudeCeiling(WorldBoundary(GroundCollision(position, velocity), deltaTime),
                  deltaTime)

Returned(lock, newRotation, blended, bounded) ==
  [ position     |-> bounded.position,
    rotation     |-> newRotation,
    velocity     |-> bounded.velocity,
    acceleration |-> blended,
    steeringLock |-> lock,
    tilt         |-> TiltAmount(newRotation) ]

MoveAndReturn(physics, deltaTime, lock, newRotation, blended, limited) ==
  Returned(lock, newRotation, blended,
           EnforceLimits(NewPosition(physics.position, limited, deltaTime),
                         limited, deltaTime))

AccelerateAndMove(physics, speedBoost, deltaTime, lock, newRotation, blended) ==
  MoveAndReturn(physics, deltaTime, lock, newRotation, blended,
                LimitSpeed(IntegrateVelocity(physics.velocity, blended, deltaTime),
                           ActualMaxSpeed(speedBoost)))

RotateAndAccelerate(physics, controls, speedBoost, deltaTime, lock, newRotation) ==
  AccelerateAndMove(
    physics, speedBoost, deltaTime, lock, newRotation,
    BlendedAcceleration(physics.acceleration,
                        NewAcceleration(newRotation, physics.velocity, controls, lock)))

StepWithLock(physics, controls, speedBoost, deltaTime, lock) ==
  RotateAndAccelerate(
    physics, controls, speedBoost, deltaTime, lock,
    NewRotation(PhysicsAfterCall(physics, controls).rotation, controls, lock,
                deltaTime))

\* The state updateDronePhysics returns.
updateDronePhysics(physics, controls, speedBoost, deltaTime) ==
  StepWithLock(physics, controls, speedBoost, deltaTime,
               NewSteeringLock(physics, controls))

\* A control vector as DroneController hands it over.
Controls(throttle, pitch, yaw, roll, lock) ==
  [ throttle |-> throttle, pitch |-> pitch, yaw |-> yaw, roll |-> roll,
    hasSteeringLock |-> TRUE, steeringLock |-> lock ]

----------------------------------------------------------------------------
(* checkCollision and checkCoinCollection, src/src/utils/physics.ts *)

\* Math.sqrt(dx * dx + dy * dy + dz * dz)
DistanceOf(dx, dy, dz) == MathSqrt(Add(Add(Mul(dx, dx), Mul(dy, dy)), Mul(dz, dz)))

Distance(a, b) == DistanceOf(Sub(a.x, b.x), Sub(a.y, b.y), Sub(a.z, b.z))

\* The comparison of checkCollision with <= in place of <.
HitsObstacleInclusive(dronePosition, droneRadius, obstacle) ==
  Le(Distance(dronePosition, obstacle.position),
     Add(droneRadius, Mul(obstacle.radius, 850)))

\* distance < droneRadius + obstacle.radius * 0.85
HitsObstacle(dronePosition, droneRadius, obstacle) ==
  Lt(Distance(dronePosition, obstacle.position),
     Add(droneRadius, Mul(obstacle.radius, 850)))

\* The for loop of checkCollision from obstacle i on: true at the first hit.
RECURSIVE CollisionScan(_, _, _, _)
CollisionScan(dronePosition, droneRadius, obstacles, i) ==
  IF i > Len(obstacles) THEN FALSE
  ELSE IF HitsObstacle(dronePosition, droneRadius, obstacles[i]) THEN TRUE
  ELSE CollisionScan(dronePosition, droneRadius, obstacles, i + 1)

checkCollision(dronePosition, droneRadius, obstacles) ==
  CollisionScan(dronePosition, droneRadius, obstacles, 1)

\* const baseRadius = droneRadius * 2.0
BaseRadius(droneRadius) == Mul(droneRadius, 2 * Scale)

\* The base radius before it was raised from 1.5 to 2.0 drone radii.
CollectionRadiusNarrow(droneRadius, coin) ==
  Add(Mul(droneRadius, 1500), Mul(coin.radius, 1700))

\* baseRadius + coin.radius * 1.7
CollectionRadius(droneRadius, coin) ==
  Add(BaseRadius(droneRadius), Mul(coin.radius, 1700))

\* const magnetRadius = hasMagnet ? baseRadius * 12 : baseRadius
MagnetRadius(droneRadius, hasMagnet) ==
  IF hasMagnet THEN Mul(BaseRadius(droneRadius), 12 * Scale) ELSE BaseRadius(droneRadius)

\* A forEach callback that does not return early for a collected coin.
CoinSkippedNever(coin) == FALSE

\* if (coin.collected) return;
CoinSkipped(coin) == coin.collected

\* A pull that does not ask whether the magnet is held.
CoinPulledWithoutMagnet(dronePosition, droneRadius, coin, hasMagnet) ==
  /\ ~CoinSkipped(coin)
  /\ Lt(Distance(dronePosition, coin.position), MagnetRadius(droneRadius, TRUE))

\* The magnet pulls the coin: hasMagnet && distance < magnetRadius.
CoinPulled(dronePosition, droneRadius, coin, hasMagnet) ==
  /\ ~CoinSkipped(coin)
  /\ hasMagnet
  /\ Lt(Distance(dronePosition, coin.position), MagnetRadius(droneRadius, hasMagnet))

\* A pull that takes the difference the wrong way round.
PullTowardReversed(from, to) == Add(from, Mul(Sub(from, to), 600))

\* coin.position.x += dx * pullStrength, with dx = dronePosition.x - coin.position.x
PullToward(from, to) == Add(from, Mul(Sub(to, from), 600))

\* The coin as the forEach callback leaves it.
CoinAfter(dronePosition, droneRadius, coin, hasMagnet) ==
  IF CoinPulled(dronePosition, droneRadius, coin, hasMagnet)
  THEN [coin EXCEPT !.position = Vec(PullToward(coin.position.x, dronePosition.x),
                                      PullToward(coin.position.y, dronePosition.y),
                                      PullToward(coin.position.z, dronePosition.z))]
  ELSE coin

\* The callback pushes the coin's index: the distance measured before the
\* pull is below the collection radius.
CoinCollected(dronePosition, droneRadius, coin) ==
  /\ ~CoinSkipped(coin)
  /\ Lt(Distance(dronePosition, coin.position), CollectionRadius(droneRadius, coin))

\* The coin list after the call: the magnet moves coins in place.
CoinsAfterCall(dronePosition, droneRadius, coins, hasMagnet) ==
  [ i \in DOMAIN coins |-> CoinAfter(dronePosition, droneRadius, coins[i], hasMagnet) ]

\* collectedIndices as the forEach builds it from coin i on; the indices
\* are those of the JavaScript array, from 0.
RECURSIVE CollectFrom(_, _, _, _)
CollectFrom(dronePosition, droneRadius, coins, i) ==
  IF i > Len(coins) THEN << >>
  ELSE IF CoinCollected(dronePosition, droneRadius, coins[i])
  THEN << i - 1 >> \o CollectFrom(dronePosition, droneRadius, coins, i + 1)
  ELSE CollectFrom(dronePosition, droneRadius, coins, i + 1)

\* checkCoinCollection: the list it returns, and the coins as it leaves them.
checkCoinCollection(dronePosition, droneRadius, coins, hasMagnet) ==
  [ collectedIndices |-> CollectFrom(dronePosition, droneRadius, coins, 1),
    coins |-> CoinsAfterCall(dronePosition, droneRadius, coins, hasMagnet) ]

----------------------------------------------------------------------------
(* The flight model under a pilot: a manoeuvre flown from the initial      *)
(* state to one of the limits of the world (the floor, the ceiling, a      *)
(* world boundary), then MaxSteps steps with freely chosen inputs.         *)

\* The number of freely chosen steps after the manoeuvre.
MaxSteps == 2

Plans == {"start", "fall", "climb", "north", "west"}

HoldAltitude(p) == IF p.position.y < 30 * Scale THEN Scale ELSE 0

\* The controls the pilot holds while flying the manoeuvre: key states as
\* DroneController turns them into a control vector.
PlanControls(pl, p) ==
  CASE pl = "fall"  -> Controls(0, 0, 0, 0, 0)
    [] pl = "climb" -> Controls(Scale, 0, 0, 0, 0)
    [] pl = "north" -> Controls(HoldAltitude(p),
                                IF p.rotation.x > -1200 THEN -Scale ELSE 0, 0, 0, 0)
    [] pl = "west"  -> Controls(HoldAltitude(p), 0, 0,
                                IF p.rotation.z > -1200 THEN -Scale ELSE 0, 0)
    [] OTHER        -> Controls(0, 0, 0, 0, 0)

\* The manoeuvre has brought the drone next to the limit it aims at.
Arrived(pl, p) ==
  CASE pl = "fall"  -> p.position.y < 3600
    [] pl = "climb" -> p.position.y > 148500
    [] pl = "north" -> p.position.z > 498 * Scale
    [] pl = "west"  -> p.position.x < -498 * Scale
    [] OTHER        -> TRUE

\* The frame time of the manoeuvre: the 100 ms cap of the frame loop.
CruiseDeltaTime == 100

\* Control vectors of the free steps.  Throttle is Space minus Shift, so
\* -1, 0 or 1; yaw reaches 2.5 with an arrow key and Q/E together.
FreeControls ==
  { Controls(0, 0, 0, 0, 0),
    Controls(-Scale, 0, 0, 0, 0),
    Controls(Scale, -Scale, 2500, Scale, 1),
    Controls(Scale, Scale, -Scale, -Scale, -1),
    [ throttle |-> 0, pitch |-> 50, yaw |-> 50, roll |-> 50,
      hasSteeringLock |-> FALSE, steeringLock |-> 0 ] }

DeltaTimes == {0, 16, 100}

NoCall == [ controls |-> Controls(0, 0, 0, 0, 0), speedBoost |-> FALSE,
            deltaTime |-> 0, called |-> FALSE ]

NoQuery == [ kind |-> "none", position |-> ZeroVec, droneRadius |-> 0,
             hasMagnet |-> FALSE ]

flightVars == << dronePhysics, argBefore, argAfter, lastCall, plan, freeSteps >>

queryVars == << obstaclePositions, coinPositions, query, collisionResult,
                coinsBefore, collectedCoinIndices, queryCalls >>

frameVars == << state, gameStarted, pendingUpdates, coinReports, frames,
                previousTime, raf, gameFrames >>

controllerVars == << keys, steeringLock, activeSteeringKey, keyEvent >>

\* safeStartTimerRef.current when no timer is set
NoTimer == -1

graceVars == << powerUpPositions, safeStartTimer, playingFor >>

pageVars == << rendered, applied, gameControls, controllerVars, graceVars >>

vars == << flightVars, queryVars, frameVars, pageVars >>

\* useGameState's state while a game is played; null is written "none".
GameState(powerUp) ==
  [ status |-> "playing", score |-> 0, highScore |-> 0, powerUp |-> powerUp,
    powerUpTimeRemaining |-> 0 ]

\* previousTimeRef.current before the first frame.
undefined == -1

\* The loop's effect has requested its first animation frame.
FirstRequest == [ requestRef |-> 1, pending |-> {1} ]

\* No frame has run.
FrameIdle ==
  /\ state = GameState("none")
  /\ gameStarted = FALSE
  /\ pendingUpdates = << >>
  /\ coinReports = << >>
  /\ frames = 0
  /\ previousTime = undefined
  /\ raf = FirstRequest
  /\ gameFrames = 0

\* What the effects and handlers of a render read of the game state: the
\* status, the power-up and its remaining time.
Rendered(prev) ==
  [ status |-> prev.status, powerUp |-> prev.powerUp,
    powerUpTimeRemaining |-> prev.powerUpTimeRemaining ]

\* No updater has been applied.
NoUpdater == [ kind |-> "none", before |-> GameState("none") ]

\* const [controls, setControls] = useState({throttle: 0, ...}) in Game
NoControls == Controls(0, 0, 0, 0, 0)

\* The key codes of DroneController's keys the model follows: the two
\* steering keys, the forward key and the lift key.
KeyCodes == {"KeyQ", "KeyE", "KeyW", "Space"}

\* No keyboard event has been handled.
NoKeyEvent == [ type |-> "none", code |-> "none", lock |-> 0 ]

\* DroneController as it is mounted: no key down, no lock, no active key.
ControllerIdle ==
  /\ keys = [ code \in KeyCodes |-> FALSE ]
  /\ steeringLock = 0
  /\ activeSteeringKey = "none"
  /\ keyEvent = NoKeyEvent

\* No power-up in the level, no grace timer set.
GraceIdle ==
  /\ powerUpPositions = << >>
  /\ safeStartTimer = NoTimer
  /\ playingFor = 0

\* The page is not modelled: nothing is rendered, no control is held.
PageIdle ==
  /\ rendered = Rendered(GameState("none"))
  /\ applied = NoUpdater
  /\ gameControls = NoControls
  /\ ControllerIdle
  /\ GraceIdle

\* No flight has taken place.
FlightIdle ==
  /\ dronePhysics = createDronePhysics
  /\ argBefore = createDronePhysics
  /\ argAfter = createDronePhysics
  /\ lastCall = NoCall
  /\ freeSteps = 0

\* No spatial query has been made.
QueryIdle ==
  /\ query = NoQuery
  /\ collisionResult = FALSE
  /\ coinsBefore = << >>
  /\ collectedCoinIndices = << >>
  /\ queryCalls = 0

\* One call of updateDronePhysics by the frame loop:
\* dronePhysicsRef.current = updateDronePhysics(dronePhysicsRef.current, ...).
Call(controls, speedBoost, deltaTime) ==
  /\ dronePhysics'   = updateDronePhysics(dronePhysics, controls, speedBoost, deltaTime)
  /\ argBefore' = dronePhysics
  /\ argAfter'  = PhysicsAfterCall(dronePhysics, controls)
  /\ lastCall'  = [ controls |-> controls, speedBoost |-> speedBoost,
                    deltaTime |-> deltaTime, called |-> TRUE ]

Cruise ==
  /\ freeSteps = 0
  /\ ~Arrived(plan, dronePhysics)
  /\ Call(PlanControls(plan, dronePhysics), FALSE, CruiseDeltaTime)
  /\ UNCHANGED << plan, freeSteps, queryVars, frameVars, pageVars >>

Step ==
  /\ Arrived(plan, dronePhysics)
  /\ freeSteps < MaxSteps
  /\ \E controls \in FreeControls, speedBoost \in BOOLEAN, deltaTime \in DeltaTimes :
       Call(controls, speedBoost, deltaTime)
  /\ freeSteps' = freeSteps + 1
  /\ UNCHANGED << plan, queryVars, frameVars, pageVars >>

Init ==
  /\ FlightIdle
  /\ plan \in Plans
  /\ obstaclePositions = << >>
  /\ coinPositions = << >>
  /\ QueryIdle
  /\ FrameIdle
  /\ PageIdle

Next == Cruise \/ Step

Spec == Init /\ [][Next]_vars

----------------------------------------------------------------------------
(* The pilot at the world boundary: the flight north of the manoeuvre      *)
(* above, then steps with the forward key held or released.                *)

\* The number of steps flown at the boundary.
MaxWallSteps == 6

\* W held or released (DroneController: pitch -1 or 0), altitude held.
WallControls(p) ==
  { Controls(HoldAltitude(p), pitch, 0, 0, 0) : pitch \in {-Scale, 0} }

WallDeltaTimes == {16, 100}

InitWall ==
  /\ FlightIdle
  /\ plan = "north"
  /\ obstaclePositions = << >>
  /\ coinPositions = << >>
  /\ QueryIdle
  /\ FrameIdle
  /\ PageIdle

WallStep ==
  /\ Arrived(plan, dronePhysics)
  /\ freeSteps < MaxWallSteps
  /\ \E controls \in WallControls(dronePhysics), deltaTime \in WallDeltaTimes :
       Call(controls, FALSE, deltaTime)
  /\ freeSteps' = freeSteps + 1
  /\ UNCHANGED << plan, queryVars, frameVars, pageVars >>

NextWall == Cruise \/ WallStep

SpecWall == InitWall /\ [][NextWall]_vars

----------------------------------------------------------------------------
(* checkCollision on its own: a list of obstacles, then calls with a       *)
(* drone position and a drone radius.                                     *)

\* Lists of up to Max elements of Pool.
ListsOf(Pool, Max) == UNION { [ 1..n -> Pool ] : n \in 0..Max }

\* The longest list of obstacles.
MaxObstacles == 2

Obstacle(x, y, z, radius) == [ position |-> Vec(x, y, z), radius |-> radius ]

ObstaclePool ==
  { Obstacle(0, 10 * Scale, 0, 2 * Scale),
    Obstacle(3 * Scale, 10 * Scale, 0, 0),
    Obstacle(0, 14 * Scale, 0, 2 * Scale) }

\* Drone positions around the obstacles, among them positions at exactly
\* the distance 0.8 + 2 * 0.85 = 2.5 from an obstacle of radius 2.
CollisionPoints ==
  { Vec(x, y, z) : x \in {0, 1500, 2500, 3000}, y \in {10 * Scale, 12 * Scale},
                   z \in {0, 2 * Scale} }

CollisionRadii == {0, 800}

InitCollision ==
  /\ FlightIdle
  /\ plan = "start"
  /\ obstaclePositions \in ListsOf(ObstaclePool, MaxObstacles)
  /\ coinPositions = << >>
  /\ QueryIdle
  /\ FrameIdle
  /\ PageIdle

\* A call checkCollision(dronePosition, droneRadius, obstaclePositions).
CollisionQuery ==
  /\ \E dronePosition \in CollisionPoints, droneRadius \in CollisionRadii :
       /\ query' = [ kind |-> "collision", position |-> dronePosition,
                     droneRadius |-> droneRadius, hasMagnet |-> FALSE ]
       /\ collisionResult' = checkCollision(dronePosition, droneRadius, obstaclePositions)
  /\ UNCHANGED << flightVars, obstaclePositions, coinPositions, coinsBefore,
                  collectedCoinIndices, queryCalls, frameVars, pageVars >>

NextCollision == CollisionQuery

SpecCollision == InitCollision /\ [][NextCollision]_vars

----------------------------------------------------------------------------
(* checkCoinCollection on its own: a list of coins, then up to MaxCalls    *)
(* calls; the coins the magnet has moved stay moved.                       *)

\* The longest list of coins.
MaxCoins == 2

\* The number of calls of checkCoinCollection.
MaxCalls == 2

Coin(x, y, z, radius, collected) ==
  [ position |-> Vec(x, y, z), radius |-> radius, collected |-> collected ]

CoinPool ==
  { Coin(5 * Scale, 10 * Scale, 0, 800, FALSE),
    Coin(3 * Scale, 11 * Scale, 2 * Scale, 800, TRUE),
    Coin(19200, 10 * Scale, 0, 500, FALSE) }

\* Drone positions: points of the line y = 10, z = 0 at distance 5, 2.96,
\* 2.8 and 0 from the coin at (5, 10, 0), and one point off the line.
CoinPoints ==
  { Vec(0, 10 * Scale, 0), Vec(2040, 10 * Scale, 0), Vec(2200, 10 * Scale, 0),
    Vec(5 * Scale, 10 * Scale, 0), Vec(Scale, 12 * Scale, 3 * Scale) }

CoinRadii == {500, 800}

InitCoins ==
  /\ FlightIdle
  /\ plan = "start"
  /\ obstaclePositions = << >>
  /\ coinPositions \in ListsOf(CoinPool, MaxCoins)
  /\ QueryIdle
  /\ FrameIdle
  /\ PageIdle

\* A call checkCoinCollection(dronePosition, droneRadius, coinPositions, hasMagnet).
CoinQuery ==
  /\ queryCalls < MaxCalls
  /\ \E dronePosition \in CoinPoints, droneRadius \in CoinRadii, hasMagnet \in BOOLEAN :
       /\ query' = [ kind |-> "coins", position |-> dronePosition,
                     droneRadius |-> droneRadius, hasMagnet |-> hasMagnet ]
       /\ collectedCoinIndices' =
            checkCoinCollection(dronePosition, droneRadius, coinPositions, hasMagnet).collectedIndices
       /\ coinPositions' =
            checkCoinCollection(dronePosition, droneRadius, coinPositions, hasMagnet).coins
  /\ coinsBefore' = coinPositions
  /\ queryCalls' = queryCalls + 1
  /\ UNCHANGED << flightVars, obstaclePositions, collisionResult, frameVars, pageVars >>

NextCoins == CoinQuery

SpecCoins == InitCoins /\ [][NextCoins]_vars

----------------------------------------------------------------------------
(* The frame loop of DroneScene: animate runs once per animation frame;    *)
(* the state updates it requests with setState are queued and take effect  *)
(* when React next renders.                                                *)

\* The number of animation frames.
MaxFrames == 3

\* const droneRadius = 0.8 in animate
sceneDroneRadius == 800

\* A queued state update.
CoinsUpdate(indices) == [ kind |-> "coins", indices |-> indices, points |-> 0 ]
PointsUpdate(points) == [ kind |-> "points", indices |-> << >>, points |-> points ]
CrashUpdate == [ kind |-> "crash", indices |-> << >>, points |-> 0 ]

\* A crashDrone that crashes whatever the power-up.
crashDroneThroughShield(prev) ==
  [ prev EXCEPT !.status = "crashed",
                !.highScore = IF prev.score > prev.highScore
                              THEN prev.score ELSE prev.highScore ]

\* crashDrone's updater: a shield is used up instead of crashing.
crashDrone(prev) ==
  IF prev.powerUp = "shield"
  THEN [ prev EXCEPT !.powerUp = "none", !.powerUpTimeRemaining = 0 ]
  ELSE [ prev EXCEPT !.status = "crashed",
                     !.highScore = IF prev.score > prev.highScore
                                   THEN prev.score ELSE prev.highScore ]

\* An addPoints that leaves the high score alone.
addPointsToScoreOnly(prev, points) ==
  [ prev EXCEPT !.score = prev.score + points ]

\* addPoints' updater.
addPoints(prev, points) ==
  [ prev EXCEPT !.score = prev.score + points,
                !.highScore = IF prev.score + points > prev.highScore
                              THEN prev.score + points ELSE prev.highScore ]

\* startGame's updater.
startGame(prev) ==
  [ prev EXCEPT !.status = "playing", !.score = 0, !.powerUp = "none",
                !.powerUpTimeRemaining = 0 ]

\* pauseGame's updater.
pauseGame(prev) ==
  [ prev EXCEPT !.status = IF prev.status = "playing" THEN "paused" ELSE "playing" ]

\* returnToMenu's updater.
returnToMenu(prev) == [ prev EXCEPT !.status = "menu" ]

\* activatePowerUp's updater.
activatePowerUp(prev, type, duration) ==
  [ prev EXCEPT !.powerUp = type, !.powerUpTimeRemaining = duration ]

\* A countdown that never takes the power-up away.
CountdownKeepsPowerUp(prev) ==
  [ prev EXCEPT !.powerUpTimeRemaining =
                  IF prev.powerUpTimeRemaining - 1 <= 0
                  THEN 0 ELSE prev.powerUpTimeRemaining - 1 ]

\* The updater of the power-up countdown's interval callback.
Countdown(prev) ==
  IF prev.powerUpTimeRemaining - 1 <= 0
  THEN [ prev EXCEPT !.powerUp = "none", !.powerUpTimeRemaining = 0 ]
  ELSE [ prev EXCEPT !.powerUpTimeRemaining = prev.powerUpTimeRemaining - 1 ]

\* The countdown effect has an interval running:
\* state.powerUp && state.powerUpTimeRemaining > 0 && state.status === 'playing'
IntervalSet(r) ==
  /\ r.powerUp # "none"
  /\ r.powerUpTimeRemaining > 0
  /\ r.status = "playing"

\* The updater a queued update of useGameState stands for.
GameUpdater(prev, update) ==
  CASE update.kind = "crash"  -> crashDrone(prev)
    [] update.kind = "activate" -> activatePowerUp(prev, update.type, update.duration)
    [] update.kind = "tick"   -> Countdown(prev)
    [] update.kind = "points" -> addPoints(prev, update.points)
    [] update.kind = "start"  -> startGame(prev)
    [] update.kind = "pause"  -> pauseGame(prev)
    [] update.kind = "menu"   -> returnToMenu(prev)
    [] OTHER                  -> prev

\* The game state after the queued updates from update k on, in order.
RECURSIVE ApplyGameUpdates(_, _, _)
ApplyGameUpdates(prev, updates, k) ==
  IF k > Len(updates) THEN prev
  ELSE ApplyGameUpdates(GameUpdater(prev, updates[k]), updates, k + 1)

\* The coins after the queued setCoinPositions updaters:
\* newPositions[index].collected = true for every index of every update.
ApplyCoinUpdates(coins, updates) ==
  [ i \in DOMAIN coins |->
      IF \E k \in DOMAIN updates :
           /\ updates[k].kind = "coins"
           /\ \E n \in DOMAIN updates[k].indices : updates[k].indices[n] = i - 1
      THEN [ coins[i] EXCEPT !.collected = TRUE ]
      ELSE coins[i] ]

\* The updates animate queues: onCrash when the collision check fired, then
\* setCoinPositions and onCoinCollect(length * 15) when coins were returned.
FrameUpdates(crashed, indices) ==
  (IF crashed THEN << CrashUpdate >> ELSE << >>)
    \o (IF Len(indices) > 0
        THEN << CoinsUpdate(indices), PointsUpdate(Len(indices) * 15) >>
        ELSE << >>)

\* The control vectors held during the frames: none, or forward with lift.
FrameControls == { Controls(0, 0, 0, 0, 0), Controls(Scale, -Scale, 0, 0, 0) }

FrameDeltaTimes == {16, 100}

\* The levels: a coin next to the start position (0, 30, 0), a coin twelve
\* units ahead within reach of the magnet only, and none or one obstacle in
\* front of the start position.
FrameCoinLists ==
  { << Coin(2 * Scale, 30 * Scale, 0, 800, FALSE) >>,
    << Coin(0, 30 * Scale, -12 * Scale, 500, FALSE) >>,
    << Coin(0, 30 * Scale, -12 * Scale, 500, FALSE),
       Coin(2 * Scale, 30 * Scale, 0, 800, FALSE) >> }

FrameObstacleLists == { << >>, << Obstacle(0, 30 * Scale, -2 * Scale, 2 * Scale) >> }

FramePowerUps == {"none", "magnet", "shield", "speed"}

\* The scene is set up and a game is being played.
InitFrame ==
  /\ dronePhysics = [ createDronePhysics EXCEPT !.position = Vec(0, 30 * Scale, 0) ]
  /\ argBefore = createDronePhysics
  /\ argAfter = createDronePhysics
  /\ lastCall = NoCall
  /\ plan = "start"
  /\ freeSteps = 0
  /\ obstaclePositions \in FrameObstacleLists
  /\ coinPositions \in FrameCoinLists
  /\ QueryIdle
  /\ \E powerUp \in FramePowerUps : state = GameState(powerUp)
  /\ gameStarted = FALSE
  /\ pendingUpdates = << >>
  /\ coinReports = << >>
  /\ frames = 0
  /\ previousTime = undefined
  /\ raf = FirstRequest
  /\ gameFrames = 0
  /\ PageIdle

\* The timer of the grace period fires: gameStartedRef.current = true.
GraceElapsed ==
  /\ state.status = "playing"
  /\ ~gameStarted
  /\ gameStarted' = TRUE
  /\ UNCHANGED << flightVars, queryVars, state, pendingUpdates, coinReports, frames,
                  previousTime, raf, gameFrames, pageVars >>

\* The body of animate under `if (isPlaying && ...)`: the physics step, the
\* collision check, the coin collection and the updates they queue.
Animate(controls, deltaTime) ==
  /\ Call(controls, state.powerUp = "speed", deltaTime)
  /\ collisionResult' =
       ( /\ gameStarted
         /\ state.powerUp # "shield"
         /\ checkCollision(dronePhysics'.position, sceneDroneRadius, obstaclePositions) )
  /\ query' = [ kind |-> "coins", position |-> dronePhysics'.position,
                droneRadius |-> sceneDroneRadius,
                hasMagnet |-> (state.powerUp = "magnet") ]
  /\ coinsBefore' = coinPositions
  /\ collectedCoinIndices' =
       checkCoinCollection(dronePhysics'.position, sceneDroneRadius, coinPositions,
                           state.powerUp = "magnet").collectedIndices
  /\ coinPositions' =
       checkCoinCollection(dronePhysics'.position, sceneDroneRadius, coinPositions,
                           state.powerUp = "magnet").coins
  /\ pendingUpdates' = pendingUpdates \o FrameUpdates(collisionResult', collectedCoinIndices')
  /\ coinReports' = coinReports \o collectedCoinIndices'

\* One run of animate while isPlaying.
Frame ==
  /\ frames < MaxFrames
  /\ state.status = "playing"
  /\ \E controls \in FrameControls, deltaTime \in FrameDeltaTimes :
       Animate(controls, deltaTime)
  /\ frames' = frames + 1
  /\ UNCHANGED << plan, freeSteps, obstaclePositions, queryCalls, state, gameStarted,
                  previousTime, raf, gameFrames, pageVars >>

\* React renders: the queued updaters run in order, and the effect on
\* isPlaying clears gameStartedRef when the game is no longer played.
Render ==
  /\ pendingUpdates # << >>
  /\ state' = ApplyGameUpdates(state, pendingUpdates, 1)
  /\ coinPositions' = ApplyCoinUpdates(coinPositions, pendingUpdates)
  /\ pendingUpdates' = << >>
  /\ gameStarted' = (gameStarted /\ state'.status = "playing")
  /\ UNCHANGED << flightVars, obstaclePositions, query, collisionResult, coinsBefore,
                  collectedCoinIndices, queryCalls, coinReports, frames,
                  previousTime, raf, gameFrames, pageVars >>

NextFrame == GraceElapsed \/ Frame \/ Render

SpecFrame == InitFrame /\ [][NextFrame]_vars

----------------------------------------------------------------------------
(* Flight toward an obstacle: the drone starts at rest on the floor at      *)
(* (0, 2.5, 0) and is stepped with full throttle and centred sticks at      *)
(* 16 ms per frame; after every step checkCollision is asked about the      *)
(* obstacle at (0, 2.5, 50) of radius 2.                                    *)

ScenarioObstacles == << Obstacle(0, 2500, 50 * Scale, 2 * Scale) >>

ScenarioControls ==
  [ throttle |-> Scale, pitch |-> 0, yaw |-> 0, roll |-> 0,
    hasSteeringLock |-> FALSE, steeringLock |-> 0 ]

ScenarioDeltaTime == 16

InitScenario ==
  /\ dronePhysics = [ createDronePhysics EXCEPT !.position = Vec(0, 2500, 0) ]
  /\ argBefore = createDronePhysics
  /\ argAfter = createDronePhysics
  /\ lastCall = NoCall
  /\ plan = "start"
  /\ freeSteps = 0
  /\ obstaclePositions = ScenarioObstacles
  /\ coinPositions = << >>
  /\ QueryIdle
  /\ FrameIdle
  /\ PageIdle

\* One step of the flight, then the collision check at the new position.
ScenarioStep ==
  /\ Call(ScenarioControls, FALSE, ScenarioDeltaTime)
  /\ query' = [ kind |-> "collision", position |-> dronePhysics'.position,
                droneRadius |-> sceneDroneRadius, hasMagnet |-> FALSE ]
  /\ collisionResult' =
       checkCollision(dronePhysics'.position, sceneDroneRadius, obstaclePositions)
  /\ UNCHANGED << plan, freeSteps, obstaclePositions, coinPositions, coinsBefore,
                  collectedCoinIndices, queryCalls, frameVars, pageVars >>

NextScenario == ScenarioStep

SpecScenario == InitScenario /\ [][NextScenario]_vars

----------------------------------------------------------------------------
(* Flight with the sticks released: from the initial state, at rest at      *)
(* y = 30, every frame passes zero controls; the frame time is the same     *)
(* for the whole flight.                                                    *)

RestControls == Controls(0, 0, 0, 0, 0)

RestDeltaTimes == {16, 50, 100}

InitRest ==
  /\ dronePhysics = createDronePhysics
  /\ argBefore = createDronePhysics
  /\ argAfter = createDronePhysics
  /\ \E deltaTime \in RestDeltaTimes : lastCall = [ NoCall EXCEPT !.deltaTime = deltaTime ]
  /\ plan = "start"
  /\ freeSteps = 0
  /\ obstaclePositions = << >>
  /\ coinPositions = << >>
  /\ QueryIdle
  /\ FrameIdle
  /\ PageIdle

RestStep ==
  /\ Call(RestControls, FALSE, lastCall.deltaTime)
  /\ UNCHANGED << plan, freeSteps, queryVars, frameVars, pageVars >>

NextRest == RestStep

SpecRest == InitRest /\ [][NextRest]_vars

----------------------------------------------------------------------------
(* A session: the page is mounted with the game at the menu, the player    *)
(* starts, pauses, resumes and restarts games, and the browser runs the    *)
(* animation-frame callbacks the loop has requested.                        *)

ButtonUpdate(kind) == [ kind |-> kind, indices |-> << >>, points |-> 0 ]

\* Math.min((time - previousTimeRef.current) / 1000, 0.1) without the cap.
DeltaTimeUncapped(time, previous) ==
  time - (IF previous = undefined THEN time ELSE previous)

\* const deltaTime = Math.min((time - previousTimeRef.current) / 1000, 0.1),
\* after previousTimeRef.current was set to time if it was undefined.
DeltaTimeOf(time, previous) ==
  MathMin(time - (IF previous = undefined THEN time ELSE previous), 100)

\* A handle requestAnimationFrame has not given out among those still known.
FreshHandle(r) ==
  CHOOSE h \in 1..(Cardinality(r.pending) + 2) : h \notin r.pending /\ h # r.requestRef

\* requestRef.current = requestAnimationFrame(animate)
Requested(r) ==
  [ requestRef |-> FreshHandle(r), pending |-> r.pending \cup { FreshHandle(r) } ]

\* An effect that requests a frame again without its clean-up.
RestartedWithoutCancel(r) == Requested(r)

\* The loop's effect runs again: the clean-up cancels requestRef.current,
\* then the effect requests a frame.
Restarted(r) == Requested([ r EXCEPT !.pending = r.pending \ { r.requestRef } ])

\* The time since the previous callback, in ms: a frame, or a long stall.
ElapsedTimes == {16, 5000}

SessionControls == { Controls(0, 0, 0, 0, 0), Controls(Scale, -Scale, 0, 0, 0) }

InitSession ==
  /\ FlightIdle
  /\ plan = "start"
  /\ obstaclePositions = << Obstacle(0, 30 * Scale, -2 * Scale, 2 * Scale) >>
  /\ coinPositions = << Coin(2 * Scale, 30 * Scale, 0, 800, FALSE) >>
  /\ QueryIdle
  /\ state = [ GameState("none") EXCEPT !.status = "menu" ]
  /\ gameStarted = FALSE
  /\ pendingUpdates = << >>
  /\ coinReports = << >>
  /\ frames = 0
  /\ previousTime = undefined
  /\ raf = FirstRequest
  /\ gameFrames = 0
  /\ PageIdle

\* React renders with the given updates queued: the updaters run, the effect
\* on isPlaying clears gameStartedRef, and the loop's effect runs again when
\* isPlaying or powerUp has changed.
RenderWith(updates) ==
  /\ state' = ApplyGameUpdates(state, updates, 1)
  /\ coinPositions' = ApplyCoinUpdates(coinPositions, updates)
  /\ pendingUpdates' = << >>
  /\ gameStarted' = (gameStarted /\ state'.status = "playing")
  /\ raf' = IF \/ (state'.status = "playing") # (state.status = "playing")
               \/ state'.powerUp # state.powerUp
            THEN Restarted(raf) ELSE raf
  /\ gameFrames' = IF \E k \in DOMAIN updates : updates[k].kind = "start"
                   THEN 0 ELSE gameFrames
  /\ UNCHANGED << flightVars, obstaclePositions, query, collisionResult, coinsBefore,
                  collectedCoinIndices, queryCalls, coinReports, frames, previousTime,
                  pageVars >>

\* React renders the updates the frames have queued.
SessionRender ==
  /\ pendingUpdates # << >>
  /\ RenderWith(pendingUpdates)

\* The player presses Start on the menu or Try Again on the crash screen.
StartGame ==
  /\ state.status \in {"menu", "crashed"}
  /\ RenderWith(pendingUpdates \o << ButtonUpdate("start") >>)

\* The player presses Escape while playing, or Resume on the pause screen.
PauseGame ==
  /\ state.status \in {"playing", "paused"}
  /\ RenderWith(pendingUpdates \o << ButtonUpdate("pause") >>)

\* The player presses Main Menu on the crash or the pause screen.
ReturnToMenu ==
  /\ state.status \in {"crashed", "paused"}
  /\ RenderWith(pendingUpdates \o << ButtonUpdate("menu") >>)

\* The controls change: the loop's effect runs again.
ControlsChanged ==
  /\ raf' = Restarted(raf)
  /\ UNCHANGED << flightVars, queryVars, state, gameStarted, pendingUpdates,
                  coinReports, frames, previousTime, gameFrames, pageVars >>

\* The browser runs a requested callback: animate(time).
AnimationFrame ==
  /\ frames < MaxFrames
  /\ \E h \in raf.pending, elapsed \in ElapsedTimes, controls \in SessionControls :
       /\ previousTime' = (IF previousTime = undefined THEN 0 ELSE previousTime) + elapsed
       /\ IF state.status = "playing"
          THEN /\ Animate(controls, DeltaTimeOf(previousTime', previousTime))
               /\ gameFrames' = gameFrames + 1
               /\ UNCHANGED << plan, freeSteps, obstaclePositions, queryCalls >>
          ELSE UNCHANGED << flightVars, queryVars, pendingUpdates, coinReports, gameFrames >>
       /\ raf' = Requested([ raf EXCEPT !.pending = raf.pending \ { h } ])
  /\ frames' = frames + 1
  /\ UNCHANGED << state, gameStarted, pageVars >>

NextSession ==
  \/ StartGame \/ PauseGame \/ ReturnToMenu \/ ControlsChanged
  \/ GraceElapsed \/ AnimationFrame \/ SessionRender

SpecSession == InitSession /\ [][NextSession]_vars

----------------------------------------------------------------------------
(* useGameState on its own: the functions the hook returns are called in   *)
(* any order, the countdown's interval fires while the countdown effect    *)
(* of the last render has it running, and the effects of a render run      *)
(* some time after the state has changed.                                  *)

\* The score at which the model stops adding points.
MaxScore == 30

\* The high score found in localStorage when the page is mounted.
SavedHighScores == {0, 15}

\* onCoinCollect(collectedCoinIndices.length * 15), and no points.
PointsAdded == {0, 15}

\* const powerUpTypes = ['shield', 'speed', 'magnet', 'timeFreeze']
powerUpTypes == {"shield", "speed", "magnet", "timeFreeze"}

\* const duration = powerUp.type === 'magnet' ? 15 : 8
DurationOf(type) == IF type = "magnet" THEN 15 ELSE 8

\* useState's initial game state.
InitialGameState ==
  [ status |-> "menu", score |-> 0, highScore |-> 0, powerUp |-> "none",
    powerUpTimeRemaining |-> 0 ]

InitHook ==
  /\ FlightIdle
  /\ plan = "start"
  /\ obstaclePositions = << >>
  /\ coinPositions = << >>
  /\ QueryIdle
  /\ \E saved \in SavedHighScores :
       state = [ InitialGameState EXCEPT !.highScore = saved ]
  /\ gameStarted = FALSE
  /\ pendingUpdates = << >>
  /\ coinReports = << >>
  /\ frames = 0
  /\ previousTime = undefined
  /\ raf = FirstRequest
  /\ gameFrames = 0
  /\ rendered = Rendered(InitialGameState)
  /\ applied = NoUpdater
  /\ gameControls = NoControls
  /\ ControllerIdle
  /\ GraceIdle

\* setState(updater): the updater of the given kind turns state into next.
SetState(kind, next) ==
  /\ state' = next
  /\ applied' = [ kind |-> kind, before |-> state ]
  /\ UNCHANGED << flightVars, queryVars, gameStarted, pendingUpdates, coinReports,
                  frames, previousTime, raf, gameFrames, rendered, gameControls,
                  controllerVars, graceVars >>

HookStartGame == SetState("start", startGame(state))

HookPauseGame == SetState("pause", pauseGame(state))

HookCrashDrone == SetState("crash", crashDrone(state))

HookAddPoints ==
  \E points \in PointsAdded :
    /\ state.score + points <= MaxScore
    /\ SetState("points", addPoints(state, points))

HookActivatePowerUp ==
  \E type \in powerUpTypes :
    SetState("activate", activatePowerUp(state, type, DurationOf(type)))

HookReturnToMenu == SetState("menu", returnToMenu(state))

\* The interval of the countdown effect fires.
CountdownTick ==
  /\ IntervalSet(rendered)
  /\ SetState("tick", Countdown(state))

\* The effects of the render of the current state run: the countdown
\* effect clears its interval and sets a new one if its condition holds.
HookEffects ==
  /\ rendered # Rendered(state)
  /\ rendered' = Rendered(state)
  /\ UNCHANGED << flightVars, queryVars, frameVars, applied, gameControls,
                  controllerVars, graceVars >>

NextHook ==
  \/ HookStartGame \/ HookPauseGame \/ HookCrashDrone \/ HookAddPoints
  \/ HookActivatePowerUp \/ HookReturnToMenu \/ CountdownTick \/ HookEffects

SpecHook == InitHook /\ [][NextHook]_vars

----------------------------------------------------------------------------
(* The Game page: the player presses the buttons of the screen shown and   *)
(* Escape, the controller delivers control changes, the animation frames   *)
(* run, time passes.  Every handler and every effect works with the game   *)
(* state of the render that installed it (rendered); the updaters the      *)
(* handlers queue are applied in order, one at a time, and the effects of  *)
(* the render that follows run once no updater is left.  The updaters of  *)
(* an event of the page are applied before its next event is delivered;    *)
(* the render may come later.  The level has one obstacle and one shield   *)
(* next to the start position and no coins.                                *)

\* The number of animation frames of a game.
MaxGameFrames == 2

\* window.setTimeout(..., 3000): the grace period in ms
GracePeriod == 3000

\* The time that passes in one step of the clock, in ms.
ClockStep == GracePeriod \div 2

\* What the handlers and effects of Game and DroneScene read.
RenderedGame(prev, controls) ==
  [ status |-> prev.status, powerUp |-> prev.powerUp,
    powerUpTimeRemaining |-> prev.powerUpTimeRemaining, controls |-> controls ]

\* setControls(...) by handleControlChange ("controls") or handleCrash ("clear").
ControlsUpdate(kind, controls) == [ kind |-> kind, controls |-> controls ]

\* activatePowerUp(type, duration)
ActivateUpdate(type, duration) ==
  [ kind |-> "activate", type |-> type, duration |-> duration ]

\* setPowerUpPositions(prev => ... newPositions[index].collected = true ...):
\* the updater sets the flag on the object every render's array holds.
CollectedUpdate(index) == [ kind |-> "collected", index |-> index ]

PowerUp(x, y, z, radius, type) ==
  [ position |-> Vec(x, y, z), radius |-> radius, type |-> type, collected |-> FALSE ]

\* distance < (droneRadius * 1.5 + powerUp.radius) for a power-up not collected
PowerUpReached(dronePosition, droneRadius, powerUp) ==
  /\ ~powerUp.collected
  /\ Lt(Distance(dronePosition, powerUp.position),
        Add(Mul(droneRadius, 1500), powerUp.radius))

\* powerUpPositions.forEach: the updates queued for the power-ups from
\* index i on.
RECURSIVE PowerUpUpdates(_, _, _, _)
PowerUpUpdates(dronePosition, droneRadius, powerUps, i) ==
  IF i > Len(powerUps) THEN << >>
  ELSE (IF PowerUpReached(dronePosition, droneRadius, powerUps[i])
        THEN << CollectedUpdate(i - 1),
                ActivateUpdate(powerUps[i].type, DurationOf(powerUps[i].type)) >>
        ELSE << >>)
       \o PowerUpUpdates(dronePosition, droneRadius, powerUps, i + 1)

\* handleCrash: crashDrone(), then setControls of the zero vector.
CrashUpdates(crashed) ==
  IF crashed THEN << CrashUpdate, ControlsUpdate("clear", NoControls) >> ELSE << >>

\* The control vectors the controller delivers: sticks centred, or forward.
GameInputs == { NoControls, Controls(0, Scale, 0, 0, 0) }

GameDeltaTimes == {16}

InitGame ==
  /\ FlightIdle
  /\ plan = "start"
  /\ obstaclePositions = << Obstacle(0, 30 * Scale, -2 * Scale, 2 * Scale) >>
  /\ coinPositions = << >>
  /\ QueryIdle
  /\ state = InitialGameState
  /\ gameStarted = FALSE
  /\ pendingUpdates = << >>
  /\ coinReports = << >>
  /\ frames = 0
  /\ previousTime = undefined
  /\ raf = FirstRequest
  /\ gameFrames = 0
  /\ powerUpPositions = << PowerUp(0, 30 * Scale, 2 * Scale, 1800, "shield") >>
  /\ rendered = RenderedGame(InitialGameState, NoControls)
  /\ applied = [ kind |-> "none", before |-> InitialGameState, controls |-> NoControls ]
  /\ gameControls = NoControls
  /\ ControllerIdle
  /\ safeStartTimer = NoTimer
  /\ playingFor = 0

\* A handler calls a function of useGameState or setControls.
Queue(updates) ==
  /\ pendingUpdates' = pendingUpdates \o updates
  /\ UNCHANGED << flightVars, queryVars, state, gameStarted, coinReports, frames,
                  previousTime, raf, gameFrames, pageVars >>

\* Start Game on the menu, Try Again on the crash screen.
ClickStart ==
  /\ rendered.status \in {"menu", "crashed"}
  /\ pendingUpdates = << >>
  /\ Queue(<< ButtonUpdate("start") >>)

\* Escape or the pause button of the HUD while playing, Resume on the
\* pause screen.
PressPause ==
  /\ rendered.status \in {"playing", "paused"}
  /\ pendingUpdates = << >>
  /\ Queue(<< ButtonUpdate("pause") >>)

\* Back to Menu on the crash or pause screen, the restart button of the HUD.
ClickMenu ==
  /\ rendered.status \in {"playing", "paused", "crashed"}
  /\ pendingUpdates = << >>
  /\ Queue(<< ButtonUpdate("menu") >>)

\* DroneController delivers a control change: handleControlChange sets the
\* controls if the status it sees is 'playing'.
ControlChange ==
  /\ rendered.status = "playing"
  /\ pendingUpdates = << >>
  /\ \E controls \in GameInputs : Queue(<< ControlsUpdate("controls", controls) >>)

\* animate with the props of the render that installed it.
GameFrame ==
  /\ frames < MaxGameFrames
  /\ rendered.status = "playing"
  /\ \E deltaTime \in GameDeltaTimes :
       Call(rendered.controls, rendered.powerUp = "speed", deltaTime)
  /\ query' = [ kind |-> "collision", position |-> dronePhysics'.position,
                droneRadius |-> sceneDroneRadius, hasMagnet |-> FALSE ]
  /\ collisionResult' =
       ( /\ gameStarted
         /\ rendered.powerUp # "shield"
         /\ checkCollision(dronePhysics'.position, sceneDroneRadius, obstaclePositions) )
  /\ pendingUpdates' =
       pendingUpdates \o CrashUpdates(collisionResult')
         \o PowerUpUpdates(dronePhysics'.position, sceneDroneRadius, powerUpPositions, 1)
  /\ frames' = frames + 1
  /\ UNCHANGED << plan, freeSteps, obstaclePositions, coinPositions, coinsBefore,
                  collectedCoinIndices, queryCalls, state, gameStarted, coinReports,
                  previousTime, raf, gameFrames, pageVars >>

\* React applies the next queued updater.
ApplyUpdater ==
  /\ pendingUpdates # << >>
  /\ state' = GameUpdater(state, Head(pendingUpdates))
  /\ gameControls' = IF Head(pendingUpdates).kind \in {"controls", "clear"}
                     THEN Head(pendingUpdates).controls ELSE gameControls
  /\ powerUpPositions' =
       IF Head(pendingUpdates).kind = "collected"
       THEN [ powerUpPositions EXCEPT ![Head(pendingUpdates).index + 1].collected = TRUE ]
       ELSE powerUpPositions
  /\ applied' = [ kind |-> Head(pendingUpdates).kind, before |-> state,
                  controls |-> gameControls ]
  /\ playingFor' = IF state.status = "playing" /\ state'.status = "playing"
                   THEN playingFor ELSE 0
  /\ pendingUpdates' = Tail(pendingUpdates)
  /\ UNCHANGED << flightVars, queryVars, gameStarted, coinReports, frames,
                  previousTime, raf, gameFrames, rendered, controllerVars,
                  safeStartTimer >>

\* The effects of the render of the current state run.  When isPlaying has
\* changed, the grace effect clears its timer, then clears gameStartedRef
\* or sets a new timer, and the controller, which has just become active,
\* delivers its controls.
RunEffects ==
  /\ pendingUpdates = << >>
  /\ rendered # RenderedGame(state, gameControls)
  /\ rendered' = RenderedGame(state, gameControls)
  /\ IF (state.status = "playing") = (rendered.status = "playing")
     THEN UNCHANGED << gameStarted, safeStartTimer, pendingUpdates >>
     ELSE IF state.status # "playing"
     THEN /\ gameStarted' = FALSE
          /\ safeStartTimer' = NoTimer
          /\ UNCHANGED pendingUpdates
     ELSE /\ safeStartTimer' = IF gameStarted THEN NoTimer ELSE GracePeriod
          /\ \E controls \in GameInputs :
               pendingUpdates' = << ControlsUpdate("controls", controls) >>
          /\ UNCHANGED gameStarted
  /\ UNCHANGED << flightVars, queryVars, state, coinReports, frames, previousTime,
                  raf, gameFrames, applied, gameControls, controllerVars,
                  powerUpPositions, playingFor >>

\* Time passes.  A render and its effects take far less than a step of the
\* clock, so that the clock only moves between them.
Elapse ==
  /\ pendingUpdates = << >>
  /\ rendered = RenderedGame(state, gameControls)
  /\ \/ safeStartTimer > 0
     \/ state.status = "playing" /\ playingFor < GracePeriod
  /\ safeStartTimer' = IF safeStartTimer = NoTimer THEN NoTimer
                       ELSE IF safeStartTimer > ClockStep
                       THEN safeStartTimer - ClockStep ELSE 0
  /\ playingFor' = IF state.status # "playing" THEN 0
                   ELSE IF playingFor + ClockStep < GracePeriod
                   THEN playingFor + ClockStep ELSE GracePeriod
  /\ UNCHANGED << flightVars, queryVars, frameVars, rendered, applied, gameControls,
                  controllerVars, powerUpPositions >>

\* The timer of the grace period fires: gameStartedRef.current = true.
GraceTimerFires ==
  /\ safeStartTimer = 0
  /\ gameStarted' = TRUE
  /\ safeStartTimer' = NoTimer
  /\ UNCHANGED << flightVars, queryVars, state, pendingUpdates, coinReports, frames,
                  previousTime, raf, gameFrames, rendered, applied, gameControls,
                  controllerVars, powerUpPositions, playingFor >>

NextGame ==
  \/ ClickStart \/ PressPause \/ ClickMenu \/ ControlChange
  \/ GameFrame \/ ApplyUpdater \/ RunEffects \/ Elapse \/ GraceTimerFires

SpecGame == InitGame /\ [][NextGame]_vars

----------------------------------------------------------------------------
(* DroneController's keyboard handlers: keys go down (a held key repeats   *)
(* its keydown) and up in any order; every event is handled by the         *)
(* handlers of the render that followed the event before it.               *)

\* The codes of the events: the keys above and a key that is not in keys.
EventCodes == KeyCodes \cup {"Escape"}

\* A handleKeyUp that gives up the lock with the active key.
LockResetOnRelease(code, lock, active) == IF code = active THEN 0 ELSE lock

\* handleKeyUp: steeringLock is not set ("Don't reset steering lock").
LockAfterKeyUp(code, lock, active) == lock

\* handleKeyUp: releasing the active steering key clears it.
ActiveAfterKeyUp(code, active) ==
  IF (code = "KeyQ" /\ active = "KeyQ") \/ (code = "KeyE" /\ active = "KeyE")
  THEN "none" ELSE active

\* handleKeyDown: Q locks left and E right unless the key is the active one.
LockAfterKeyDown(code, lock, active) ==
  IF code = "KeyQ" /\ active # "KeyQ" THEN -1
  ELSE IF code = "KeyE" /\ active # "KeyE" THEN 1
  ELSE lock

ActiveAfterKeyDown(code, active) ==
  IF code = "KeyQ" /\ active # "KeyQ" THEN "KeyQ"
  ELSE IF code = "KeyE" /\ active # "KeyE" THEN "KeyE"
  ELSE active

InitController ==
  /\ FlightIdle
  /\ plan = "start"
  /\ obstaclePositions = << >>
  /\ coinPositions = << >>
  /\ QueryIdle
  /\ FrameIdle
  /\ rendered = Rendered(GameState("none"))
  /\ applied = NoUpdater
  /\ gameControls = NoControls
  /\ ControllerIdle
  /\ GraceIdle

\* window's keydown event reaches handleKeyDown.
KeyDown ==
  /\ \E code \in EventCodes :
       /\ keyEvent' = [ type |-> "keydown", code |-> code, lock |-> steeringLock ]
       /\ IF code \in DOMAIN keys
          THEN /\ keys' = [ keys EXCEPT ![code] = TRUE ]
               /\ steeringLock' = LockAfterKeyDown(code, steeringLock, activeSteeringKey)
               /\ activeSteeringKey' = ActiveAfterKeyDown(code, activeSteeringKey)
          ELSE UNCHANGED << keys, steeringLock, activeSteeringKey >>
  /\ UNCHANGED << flightVars, queryVars, frameVars, rendered, applied, gameControls,
                  graceVars >>

\* window's keyup event reaches handleKeyUp.
KeyUp ==
  /\ \E code \in EventCodes :
       /\ keyEvent' = [ type |-> "keyup", code |-> code, lock |-> steeringLock ]
       /\ IF code \in DOMAIN keys
          THEN /\ keys' = [ keys EXCEPT ![code] = FALSE ]
               /\ steeringLock' = LockAfterKeyUp(code, steeringLock, activeSteeringKey)
               /\ activeSteeringKey' = ActiveAfterKeyUp(code, activeSteeringKey)
          ELSE UNCHANGED << keys, steeringLock, activeSteeringKey >>
  /\ UNCHANGED << flightVars, queryVars, frameVars, rendered, applied, gameControls,
                  graceVars >>

NextController == KeyDown \/ KeyUp

SpecController == InitController /\ [][NextController]_vars

----------------------------------------------------------------------------
(* updateDronePhysics as a function of the attitude: a drone at rest with   *)
(* some rotation and some retained steering lock, then up to MaxSteps       *)
(* calls with control vectors that lock, unlock and centre the sticks.      *)

TurnRotations ==
  { ZeroVec, Vec(300, Scale, -180), Vec(-500, -2 * Scale, 400) }

SteeringLocks == {-1, 0, 1}

\* Control vectors: a lock with raw yaw 0, against the lock and beyond the
\* Q/E threshold of 2.0; centred sticks with and without lock; deflected
\* sticks; centred sticks that keep the retained lock.
TurnControls ==
  { Controls(0, 0, 0, 0, 1),
    Controls(0, 0, -Scale, 0, 1),
    Controls(0, Scale, 2500, 0, 1),
    Controls(0, 0, -2500, Scale, -1),
    Controls(0, 50, 50, -50, 0),
    Controls(0, 50, -50, 50, -1),
    Controls(0, Scale, Scale, -Scale, 0),
    [ throttle |-> 0, pitch |-> 50, yaw |-> 50, roll |-> 50,
      hasSteeringLock |-> FALSE, steeringLock |-> 0 ] }

InitTurn ==
  /\ \E rotation \in TurnRotations, lock \in SteeringLocks :
       dronePhysics = [ createDronePhysics EXCEPT !.rotation = rotation,
                                                  !.steeringLock = lock ]
  /\ argBefore = createDronePhysics
  /\ argAfter = createDronePhysics
  /\ lastCall = NoCall
  /\ plan = "start"
  /\ freeSteps = 0
  /\ obstaclePositions = << >>
  /\ coinPositions = << >>
  /\ QueryIdle
  /\ FrameIdle
  /\ PageIdle

TurnStep ==
  /\ freeSteps < MaxSteps
  /\ \E controls \in TurnControls, deltaTime \in DeltaTimes :
       Call(controls, FALSE, deltaTime)
  /\ freeSteps' = freeSteps + 1
  /\ UNCHANGED << plan, queryVars, frameVars, pageVars >>

NextTurn == TurnStep

SpecTurn == InitTurn /\ [][NextTurn]_vars

----------------------------------------------------------------------------
(* Claims about updateDronePhysics *)

FiniteVec(v) == IsFinite(v.x) /\ IsFinite(v.y) /\ IsFinite(v.z)

\* C1: after every call of updateDronePhysics the returned position.y lies
\* in [2.5, 150], whatever the controls in [-1,1], the speedBoost flag and
\* the deltaTime in [0, 0.1] of the steps that led there.
AltitudeWithinBand ==
  lastCall.called =>
    /\ Le(minHeight, dronePhysics.position.y)
    /\ Le(dronePhysics.position.y, maxAltitude)

\* C2: after every call of updateDronePhysics the returned position has
\* |position.x| <= 500 and |position.z| <= 500.
WithinWorldBoundary ==
  lastCall.called =>
    /\ Le(MathAbs(dronePhysics.position.x), worldBoundary)
    /\ Le(MathAbs(dronePhysics.position.z), worldBoundary)

\* C3: from a state whose numbers are all finite and controls in [-1,1]
\* (negative throttle included), every component of the returned position,
\* velocity, rotation and acceleration is finite: no step produces NaN.
StateStaysFinite ==
  /\ FiniteVec(dronePhysics.position)
  /\ FiniteVec(dronePhysics.velocity)
  /\ FiniteVec(dronePhysics.rotation)
  /\ FiniteVec(dronePhysics.acceleration)

\* C4: the object passed as `physics` holds the same position, rotation,
\* velocity and acceleration after the call as before it, also when the
\* controls carry steeringLock = -1 or +1.
InputStateUnchanged ==
  lastCall.called => argAfter = argBefore

\* C5: the magnitude of the returned velocity never exceeds maxSpeed * 2.2
\* when the step ran with speedBoost, maxSpeed when it ran without (so it
\* stays within any tolerance the progressive limiter may leave).  A NaN
\* magnitude is not a number above the cap.
SpeedWithinCap ==
  lastCall.called =>
    ~Gt(Speed(dronePhysics.velocity), ActualMaxSpeed(lastCall.speedBoost))

\* C5's case: a step without speedBoost has returned a finite velocity of
\* more than 15 units per second.
FastFlightWitness ==
  /\ lastCall.called
  /\ ~lastCall.speedBoost
  /\ Gt(Speed(dronePhysics.velocity), 15 * Scale)

\* The input state's numbers are all finite.
FiniteState(physics) ==
  /\ FiniteVec(physics.position)
  /\ FiniteVec(physics.velocity)
  /\ FiniteVec(physics.rotation)
  /\ FiniteVec(physics.acceleration)

\* The position lies strictly inside the altitude band and the world
\* boundary.
StrictlyInside(position) ==
  /\ Lt(minHeight, position.y)
  /\ Lt(position.y, maxAltitude)
  /\ Lt(MathAbs(position.x), worldBoundary)
  /\ Lt(MathAbs(position.z), worldBoundary)

\* C19: a call of updateDronePhysics with deltaTime exactly 0 on a finite
\* state whose position lies strictly inside the altitude band (2.5, 150)
\* and the world boundary returns the position and the velocity it was
\* given (so no division by zero has put NaN in them, speed 0 included).
ZeroDeltaTimeKeepsMotion ==
  ( /\ lastCall.called
    /\ lastCall.deltaTime = 0
    /\ FiniteState(argBefore)
    /\ StrictlyInside(argBefore.position) )
  => /\ dronePhysics.position = argBefore.position
     /\ dronePhysics.velocity = argBefore.velocity

\* The position and velocity with which the last step reached the world
\* boundary code: the returned acceleration is the blended one the step
\* integrated.
BeforeBoundary ==
  GroundCollision(
    NewPosition(argBefore.position,
                LimitSpeed(IntegrateVelocity(argBefore.velocity,
                                             dronePhysics.acceleration,
                                             lastCall.deltaTime),
                           ActualMaxSpeed(lastCall.speedBoost)),
                lastCall.deltaTime),
    LimitSpeed(IntegrateVelocity(argBefore.velocity, dronePhysics.acceleration,
                                 lastCall.deltaTime),
               ActualMaxSpeed(lastCall.speedBoost)))

\* if (Math.abs(newPosition.x) > worldBoundary)
HardClamped(p) == Gt(MathAbs(p), worldBoundary)

\* The velocity v does not point out of the world on the side of p.
NotOutward(p, v) == IsFinite(v) /\ IntSign(v) * IntSign(p) <= 0

\* C20: whenever a step hard-clamps position.x or position.z to +500 or
\* -500, the returned velocity on that axis points back into the world or
\* is zero, never outward.
ClampReversesVelocity ==
  lastCall.called =>
    /\ HardClamped(BeforeBoundary.position.x)
         => NotOutward(BeforeBoundary.position.x, dronePhysics.velocity.x)
    /\ HardClamped(BeforeBoundary.position.z)
         => NotOutward(BeforeBoundary.position.z, dronePhysics.velocity.z)

\* newVelocity after the speed limiter and newPosition, as the last step
\* had them when it reached the ground collision code.
BeforeGround ==
  [ position |->
      NewPosition(argBefore.position,
                  LimitSpeed(IntegrateVelocity(argBefore.velocity,
                                               dronePhysics.acceleration,
                                               lastCall.deltaTime),
                             ActualMaxSpeed(lastCall.speedBoost)),
                  lastCall.deltaTime),
    velocity |->
      LimitSpeed(IntegrateVelocity(argBefore.velocity, dronePhysics.acceleration,
                                   lastCall.deltaTime),
                 ActualMaxSpeed(lastCall.speedBoost)) ]

\* if (newPosition.y < minHeight)
FloorClamped == lastCall.called /\ Lt(BeforeGround.position.y, minHeight)

\* The position is outside the push-back zone of the world boundary, so
\* the boundary code adds nothing to the horizontal velocity.
OutsidePushBack(position) ==
  /\ Le(MathAbs(position.x), Mul(worldBoundary, 950))
  /\ Le(MathAbs(position.z), Mul(worldBoundary, 950))

----------------------------------------------------------------------------
(* Claims about checkCollision and checkCoinCollection *)

\* The square of the distance between two points, in exact integers.
SquaredDistance(a, b) ==
  (a.x - b.x) * (a.x - b.x) + (a.y - b.y) * (a.y - b.y) + (a.z - b.z) * (a.z - b.z)

\* The Euclidean distance from p to the obstacle is strictly less than
\* r + radius * 0.85, compared on the squares.
WithinMargin(p, r, obstacle) ==
  SquaredDistance(p, obstacle.position)
    < (r + (obstacle.radius * 85) \div 100) * (r + (obstacle.radius * 85) \div 100)

\* The rearrangements of a list.
Rearrangements(list) ==
  { [ i \in DOMAIN list |-> list[f[i]] ] :
      f \in { g \in [ DOMAIN list -> DOMAIN list ] :
                \A i, j \in DOMAIN list : g[i] = g[j] => i = j } }

\* C6: checkCollision(p, r, obstacles) is true exactly when some obstacle
\* of the list lies at a distance from p strictly below r + radius * 0.85
\* (so false for the empty list), and every rearrangement of the list gives
\* the same result.
CollisionIffWithinMargin ==
  query.kind = "collision" =>
    /\ collisionResult <=>
         \E i \in DOMAIN obstaclePositions :
           WithinMargin(query.position, query.droneRadius, obstaclePositions[i])
    /\ \A list \in Rearrangements(obstaclePositions) :
         checkCollision(query.position, query.droneRadius, list) = collisionResult

\* C6's case: a list of two obstacles where the drone is clear of the first
\* and hits the second.
SecondObstacleHitWitness ==
  /\ query.kind = "collision"
  /\ Len(obstaclePositions) = 2
  /\ ~WithinMargin(query.position, query.droneRadius, obstaclePositions[1])
  /\ collisionResult

\* C7: no index of a coin that was collected before the call is in the
\* returned list, and the call leaves such a coin where it was, with or
\* without magnet.
CollectedCoinsLeftAlone ==
  query.kind = "coins" =>
    \A i \in DOMAIN coinsBefore :
      coinsBefore[i].collected =>
        /\ \A k \in DOMAIN collectedCoinIndices : collectedCoinIndices[k] # i - 1
        /\ coinPositions[i] = coinsBefore[i]

\* C7's case: a call with magnet that returned a coin while a collected
\* coin lay within 2.96 units of the drone, inside the pickup radius.
CollectedCoinNearbyWitness ==
  /\ query.kind = "coins"
  /\ query.hasMagnet
  /\ collectedCoinIndices # << >>
  /\ \E i \in DOMAIN coinsBefore :
       /\ coinsBefore[i].collected
       /\ SquaredDistance(query.position, coinsBefore[i].position) < 2960 * 2960

\* droneRadius * 2 * 12
MagnetReach(droneRadius) == droneRadius * 2 * 12

\* C8: a call with hasMagnet = true leaves every uncollected coin whose
\* distance to the drone was positive and below droneRadius * 2 * 12
\* strictly closer to the drone than it was before the call.
MagnetPullsCloser ==
  (query.kind = "coins" /\ query.hasMagnet) =>
    \A i \in DOMAIN coinsBefore :
      ( /\ ~coinsBefore[i].collected
        /\ SquaredDistance(query.position, coinsBefore[i].position) > 0
        /\ SquaredDistance(query.position, coinsBefore[i].position)
             < MagnetReach(query.droneRadius) * MagnetReach(query.droneRadius) )
      => SquaredDistance(query.position, coinPositions[i].position)
           < SquaredDistance(query.position, coinsBefore[i].position)

\* C8's case: a second call with magnet has moved a coin that the first
\* call had already moved, and has not reported it.
MagnetSecondPullWitness ==
  /\ query.kind = "coins"
  /\ query.hasMagnet
  /\ queryCalls = 2
  /\ \E i \in DOMAIN coinsBefore :
       /\ coinsBefore[i].position \notin { c.position : c \in CoinPool }
       /\ coinPositions[i].position # coinsBefore[i].position
       /\ \A k \in DOMAIN collectedCoinIndices : collectedCoinIndices[k] # i - 1

\* The scenario of C9: one uncollected coin at (5, 10, 0) of radius 0.8, a
\* drone of radius 0.8 on the line y = 10, z = 0, no magnet.
SingleCoinScenario ==
  /\ query.kind = "coins"
  /\ ~query.hasMagnet
  /\ query.droneRadius = 800
  /\ query.position.y = 10 * Scale
  /\ query.position.z = 0
  /\ coinsBefore = << Coin(5 * Scale, 10 * Scale, 0, 800, FALSE) >>

\* The distance from the drone on the line to the coin at x = 5.
LineDistance == IntAbs(query.position.x - 5 * Scale)

\* C9 as stated: nothing is returned at a distance above 2.2, and [0] at a
\* distance below 2.1.
PickupRadiusAboutTwo ==
  SingleCoinScenario =>
    /\ LineDistance > 2200 => collectedCoinIndices = << >>
    /\ LineDistance < 2100 => collectedCoinIndices = << 0 >>

\* C9: in the scenario the call returns [0] when the distance is below
\* 0.8 * 2.0 + 0.8 * 1.7 = 2.96 and [] when it is 2.96 or more.
PickupRadiusIsTwoPointNineSix ==
  SingleCoinScenario =>
    collectedCoinIndices = IF LineDistance < 2960 THEN << 0 >> ELSE << >>

\* C9's case: the drone is 2.8 away from the coin and the call returns [0].
PickupAtTwoPointEightWitness ==
  /\ SingleCoinScenario
  /\ LineDistance = 2800
  /\ collectedCoinIndices = << 0 >>

\* C14: checkCoinCollection changes no coin's collected flag or radius; it
\* moves a coin only when hasMagnet is true, the coin is uncollected and
\* closer to the drone than droneRadius * 2 * 12; without magnet the list
\* after the call is the list before it.
OnlyMagnetMovesCoins ==
  query.kind = "coins" =>
    /\ DOMAIN coinPositions = DOMAIN coinsBefore
    /\ \A i \in DOMAIN coinsBefore :
         /\ coinPositions[i].collected = coinsBefore[i].collected
         /\ coinPositions[i].radius = coinsBefore[i].radius
         /\ coinPositions[i].position # coinsBefore[i].position =>
              /\ query.hasMagnet
              /\ ~coinsBefore[i].collected
              /\ SquaredDistance(query.position, coinsBefore[i].position)
                   < MagnetReach(query.droneRadius) * MagnetReach(query.droneRadius)
    /\ ~query.hasMagnet => coinPositions = coinsBefore

\* C14's case: a call with magnet moved one coin and left another,
\* uncollected one where it was; the call reported a coin.
MagnetMovesOneOfTwoWitness ==
  /\ query.kind = "coins"
  /\ query.hasMagnet
  /\ collectedCoinIndices # << >>
  /\ \E i, j \in DOMAIN coinsBefore :
       /\ coinPositions[i].position # coinsBefore[i].position
       /\ ~coinsBefore[j].collected
       /\ coinPositions[j] = coinsBefore[j]

----------------------------------------------------------------------------
(* Claims about the frame loop *)

\* The number of times the frame loop has reported coin index i.
TimesReported(i) == Cardinality({ k \in DOMAIN coinReports : coinReports[k] = i })

\* C10: in the frame loop no coin index is returned by checkCoinCollection
\* and passed on to onCoinCollect in more than one frame of a session,
\* whenever the queued collected = true updates are applied, and the score
\* holds at most 15 points per coin.
CoinReportedAtMostOnce ==
  /\ \A i \in 0..(Len(coinPositions) - 1) : TimesReported(i) <= 1
  /\ state.score <= 15 * Len(coinPositions)

----------------------------------------------------------------------------
(* Claims about flights of many steps *)

\* C11: stepped from rest at (0, 2.5, 0) with throttle 1, centred sticks
\* and 16 ms per step, the drone flies forward toward the obstacle at
\* (0, 2.5, 50) of radius 2: until checkCollision against that obstacle
\* turns true, every step leaves the drone further along z than it was.
FliesForwardToObstacle ==
  (query.kind = "collision" /\ ~collisionResult) =>
    Gt(dronePhysics.position.z, argBefore.position.z)

\* C12 as stated: with the sticks released, from rest at y = 30, no step
\* increases the magnitude of a rotation component or the speed.
SpeedNeverIncreasesAtRest ==
  lastCall.called =>
    /\ Le(MathAbs(dronePhysics.rotation.x), MathAbs(argBefore.rotation.x))
    /\ Le(MathAbs(dronePhysics.rotation.y), MathAbs(argBefore.rotation.y))
    /\ Le(MathAbs(dronePhysics.rotation.z), MathAbs(argBefore.rotation.z))
    /\ Le(Speed(dronePhysics.velocity), Speed(argBefore.velocity))

\* C12: with the sticks released, from rest at y = 30, the rotation stays
\* level and the velocity vertical; the speed grows only in steps that leave
\* the drone descending, stays below 12.5 units per second (drag balances
\* gravity near 12.3), and the drone stays at or above the floor.
RestFlightDescends ==
  lastCall.called =>
    /\ dronePhysics.rotation = ZeroVec
    /\ dronePhysics.velocity.x = 0
    /\ dronePhysics.velocity.z = 0
    /\ Le(Speed(dronePhysics.velocity), 12500)
    /\ Gt(Speed(dronePhysics.velocity), Speed(argBefore.velocity))
         => Lt(dronePhysics.velocity.y, 0)
    /\ Le(minHeight, dronePhysics.position.y)

\* C12's case: the drone has fallen to the floor and bounced off it.
BouncedOffFloorWitness ==
  /\ lastCall.called
  /\ dronePhysics.position.y = minHeight
  /\ Gt(dronePhysics.velocity.y, 0)
  /\ Lt(Speed(dronePhysics.velocity), Speed(argBefore.velocity))

----------------------------------------------------------------------------
(* Claims about the session *)

\* C13: the first physics step of a game entered through startGame starts
\* from the initial drone state: position (0, 30, 0), velocity, rotation
\* and acceleration zero.
RestartStartsFromInitialState ==
  (lastCall.called /\ gameFrames = 1) =>
    /\ argBefore.position = createDronePhysics.position
    /\ argBefore.velocity = ZeroVec
    /\ argBefore.rotation = ZeroVec
    /\ argBefore.acceleration = ZeroVec

\* C15: every deltaTime the frame loop passes to updateDronePhysics lies
\* between 0 and 0.1 s, on the first frame and after a stall of any length.
DeltaTimeWithinCap ==
  lastCall.called => (0 <= lastCall.deltaTime /\ lastCall.deltaTime <= 100)

\* C15's case: the latest physics step came five seconds after the frame
\* before it and ran with deltaTime 0.1.
StallCappedWitness ==
  /\ lastCall.called
  /\ previousTime >= 5000 + 16
  /\ lastCall.deltaTime = 100
  /\ dronePhysics # argBefore

\* C16: the browser holds at most one requested callback of the frame loop,
\* and it is the one requestRef.current names.
OneCallbackPending ==
  /\ Cardinality(raf.pending) <= 1
  /\ raf.pending \subseteq { raf.requestRef }

\* C16's case: a frame has queued a crash, and the render that applied it
\* ran the loop's effect again.
CrashRerenderWitness ==
  /\ state.status = "crashed"
  /\ frames >= 2
  /\ raf.pending = { raf.requestRef }

----------------------------------------------------------------------------
(* Claims about useGameState *)

\* C24: in every reachable game state highScore >= score, and no updater
\* (startGame, pauseGame, crashDrone, addPoints with points >= 0,
\* activatePowerUp, returnToMenu, the countdown's tick) lowers highScore.
HighScoreKept ==
  /\ state.highScore >= state.score
  /\ applied.kind # "none" => state.highScore >= applied.before.highScore

\* C24's case: addPoints has taken the score past the high score.
HighScoreBeatenWitness ==
  /\ applied.kind = "points"
  /\ applied.before.highScore > 0
  /\ state.score > applied.before.highScore
  /\ state.highScore = state.score

\* C25: in every reachable game state powerUp is null exactly when
\* powerUpTimeRemaining is 0, and powerUpTimeRemaining is never negative
\* (activatePowerUp being called with a type and 15 or 8 seconds).
PowerUpIffTimeRemaining ==
  /\ (state.powerUp = "none") <=> (state.powerUpTimeRemaining = 0)
  /\ state.powerUpTimeRemaining >= 0

\* C25's case: crashDrone has used up a shield that still had time left.
ShieldUsedUpWitness ==
  /\ applied.kind = "crash"
  /\ applied.before.powerUp = "shield"
  /\ applied.before.powerUpTimeRemaining > 1
  /\ state.powerUp = "none"
  /\ state.powerUpTimeRemaining = 0

\* C26: a tick of the countdown takes one second off powerUpTimeRemaining
\* while status is 'playing' and clears the power-up when none is left, so
\* a power-up activated with duration n is null after n ticks; a tick does
\* not decrement powerUpTimeRemaining while status is 'paused', 'crashed'
\* or 'menu'.
CountdownOnlyWhilePlaying ==
  applied.kind = "tick" =>
    IF applied.before.status = "playing"
    THEN /\ state.powerUpTimeRemaining =
              (IF applied.before.powerUpTimeRemaining > 1
               THEN applied.before.powerUpTimeRemaining - 1 ELSE 0)
         /\ (state.powerUp = "none") <=> (applied.before.powerUpTimeRemaining <= 1)
    ELSE state.powerUpTimeRemaining = applied.before.powerUpTimeRemaining

----------------------------------------------------------------------------
(* Claims about DroneController *)

\* C29: the steering lock is always -1, 0 or +1; after a Q keydown it is
\* -1 and after an E keydown +1; no key release changes it; once non-zero
\* it stays non-zero, and it changes only with the keydown of the opposite
\* steering key, whatever the order of presses and releases.
SteeringLockSticks ==
  /\ steeringLock \in {-1, 0, 1}
  /\ (keyEvent.type = "keydown" /\ keyEvent.code = "KeyQ") => steeringLock = -1
  /\ (keyEvent.type = "keydown" /\ keyEvent.code = "KeyE") => steeringLock = 1
  /\ keyEvent.type = "keyup" => steeringLock = keyEvent.lock
  /\ keyEvent.lock # 0 => steeringLock # 0
  /\ steeringLock # keyEvent.lock
       => /\ keyEvent.type = "keydown"
          /\ keyEvent.code = (IF steeringLock = -1 THEN "KeyQ" ELSE "KeyE")

\* C29's case: with Q and E both down and a lock to the right, the active
\* key E has been released and the lock is still there.
BothKeysHeldWitness ==
  /\ keyEvent = [ type |-> "keyup", code |-> "KeyE", lock |-> 1 ]
  /\ keys["KeyQ"]
  /\ activeSteeringKey = "none"
  /\ steeringLock = 1

----------------------------------------------------------------------------
(* Claims about the Game page *)

\* C22: a collision never ends the game while the power-up is the shield:
\* the status never becomes 'crashed' from a state whose powerUp is
\* 'shield'; a frame that sees the shield does not call onCrash, and
\* crashDrone called by a frame that does not see it clears the power-up
\* and leaves the status as it was.
ShieldAbsorbsCrash ==
  [][ /\ (state'.status = "crashed" /\ state.status # "crashed")
           => state.powerUp # "shield"
      /\ (frames' # frames /\ rendered.powerUp = "shield") => ~collisionResult'
      /\ (applied' # applied /\ applied'.kind = "crash" /\ state.powerUp = "shield")
           => /\ state'.status = state.status
              /\ state'.powerUp = "none"
              /\ state'.powerUpTimeRemaining = 0
    ]_vars

\* C22's case: a frame that did not see the shield has called crashDrone
\* while the game state held it, and the game goes on without the shield.
StaleCrashAbsorbedWitness ==
  /\ applied.kind = "crash"
  /\ applied.before.powerUp = "shield"
  /\ applied.before.status = "playing"
  /\ state.status = "playing"
  /\ state.powerUp = "none"

\* C23: the game enters 'playing' from 'crashed' or 'menu' only through
\* startGame, with the score 0 and no power-up, and pauseGame only turns
\* 'playing' into 'paused' and 'paused' into 'playing'.
PlayingOnlyThroughStartGame ==
  [][ /\ (state'.status = "playing" /\ state.status \in {"crashed", "menu"})
           => /\ applied'.kind = "start"
              /\ state'.score = 0
              /\ state'.powerUp = "none"
      /\ (applied' # applied /\ applied'.kind = "pause")
           => \/ state.status = "playing" /\ state'.status = "paused"
              \/ state.status = "paused" /\ state'.status = "playing"
    ]_vars

\* C27: a frame calls onCrash only when the game has been 'playing' without
\* interruption for the 3000 ms of the grace period.
OnCrashOnlyAfterGracePeriod ==
  [][ (frames' # frames /\ collisionResult')
        => (state.status = "playing" /\ playingFor >= GracePeriod) ]_vars

\* C28: the status changes to 'crashed' only from 'playing'.
CrashedOnlyFromPlaying ==
  [][ (state'.status = "crashed" /\ state.status # "crashed")
        => state.status = "playing" ]_vars

\* C30: once every queued update is applied, a crashed game holds the zero
\* controls, and a control change applied while the status is not
\* 'playing' has left the controls as they were.
CrashedControlsZero ==
  /\ (pendingUpdates = << >> /\ state.status = "crashed")
       => gameControls = NoControls
  /\ (applied.kind = "controls" /\ applied.before.status # "playing")
       => gameControls = applied.controls

----------------------------------------------------------------------------
(* Claims about the attitude *)

\* m * m in hundredths: m = 2.4 when |controls.yaw| > 2.0, 1.4 otherwise.
LockStrengthSquared(yaw) == IF IntAbs(yaw) > 2 * Scale THEN 576 ELSE 196

\* C17: while the effective steering lock is -1 or +1, a step with
\* deltaTime > 0 changes rotation.y by lock * m * m * 3.8 * deltaTime (to
\* the thousandth), in the direction of the lock, whatever the sign and
\* value of the raw yaw, and without yaw damping.
LockedTurnRate ==
  (lastCall.called /\ dronePhysics.steeringLock # 0 /\ lastCall.deltaTime > 0) =>
    /\ IntAbs( (dronePhysics.rotation.y - argBefore.rotation.y) * Scale
               - dronePhysics.steeringLock * LockStrengthSquared(lastCall.controls.yaw)
                   * 38 * lastCall.deltaTime ) <= Scale
    /\ IntSign(dronePhysics.rotation.y - argBefore.rotation.y)
         = dronePhysics.steeringLock

\* C17's case: a step locked to the right with the raw yaw to the left.
LockAgainstYawWitness ==
  /\ lastCall.called
  /\ lastCall.deltaTime > 0
  /\ dronePhysics.steeringLock = 1
  /\ lastCall.controls.yaw < 0
  /\ dronePhysics.rotation.y > argBefore.rotation.y

\* The raw input of the axis is below 0.1 in magnitude.
Centred(input) == IntAbs(input) < 100

\* C18 as stated: unlocked, an axis with centred input returns its rotation
\* times 1 - stabilization, the same for the three axes; locked, no axis is
\* stabilized.
StabilizationUniform ==
  lastCall.called =>
    /\ dronePhysics.steeringLock = 0 =>
         /\ Centred(lastCall.controls.pitch) =>
              dronePhysics.rotation.x = Mul(argBefore.rotation.x, Scale - stabilization)
         /\ Centred(lastCall.controls.yaw) =>
              dronePhysics.rotation.y = Mul(argBefore.rotation.y, Scale - stabilization)
         /\ Centred(lastCall.controls.roll) =>
              dronePhysics.rotation.z = Mul(argBefore.rotation.z, Scale - stabilization)
    /\ (dronePhysics.steeringLock # 0 /\ Centred(lastCall.controls.pitch)
          /\ IntAbs(argBefore.rotation.x) >= 100) =>
         dronePhysics.rotation.x # Mul(argBefore.rotation.x, Scale - stabilization)

\* C18: an axis with centred input returns its rotation times
\* 1 - stabilization = 0.97 for pitch (locked or not) and for roll
\* (unlocked), times 1 - stabilization * 0.5 = 0.985 for yaw (unlocked):
\* toward zero and never to zero from 0.1 or more; locked, yaw turns and
\* roll is the bank lock * 0.18 plus the change the centred roll input
\* makes, at most 0.1 * 3.8 * 0.1 * 1.6 = 0.061.
StabilizationPerAxis ==
  lastCall.called =>
    /\ Centred(lastCall.controls.pitch) =>
         IntAbs(dronePhysics.rotation.x * 1000 - argBefore.rotation.x * 970) <= 500
    /\ (dronePhysics.steeringLock = 0 /\ Centred(lastCall.controls.yaw)) =>
         IntAbs(dronePhysics.rotation.y * 1000 - argBefore.rotation.y * 985) <= 500
    /\ (dronePhysics.steeringLock = 0 /\ Centred(lastCall.controls.roll)) =>
         IntAbs(dronePhysics.rotation.z * 1000 - argBefore.rotation.z * 970) <= 500
    /\ (dronePhysics.steeringLock # 0 /\ Centred(lastCall.controls.roll)) =>
         IntAbs(dronePhysics.rotation.z - dronePhysics.steeringLock * 180) <= 61
    /\ (dronePhysics.steeringLock # 0 /\ lastCall.deltaTime > 0) =>
         dronePhysics.rotation.y # argBefore.rotation.y
    /\ \A axis \in {"x", "y", "z"} :
         ( /\ Centred(lastCall.controls[IF axis = "x" THEN "pitch"
                                         ELSE IF axis = "y" THEN "yaw" ELSE "roll"])
           /\ dronePhysics.steeringLock = 0
           /\ IntAbs(argBefore.rotation[axis]) >= 100 )
         => /\ IntAbs(dronePhysics.rotation[axis]) < IntAbs(argBefore.rotation[axis])
            /\ IntSign(dronePhysics.rotation[axis]) = IntSign(argBefore.rotation[axis])

\* C18's case: a locked step with centred sticks from a pitched attitude:
\* the pitch is stabilized all the same.
LockedPitchStabilizedWitness ==
  /\ lastCall.called
  /\ dronePhysics.steeringLock # 0
  /\ Centred(lastCall.controls.pitch)
  /\ argBefore.rotation.x = 300
  /\ dronePhysics.rotation.x = 291

====
